---- MODULE Spec2Model ----
(***************************************************************************)
(* Model of the ip-resolver resolution engine: the sharded TTL cache       *)
(* (package cache), the inflight set, the bounded work queue, the worker   *)
(* pool and the request handler (package worker), and the tag normalizer   *)
(* (package model).                                                        *)
(*                                                                         *)
(* Text is modelled with TLA+ strings, read character by character with    *)
(* SubSeq.  A non-ASCII rune is written as its decimal code point in       *)
(* square brackets ("[24191][19996]" is the two runes of Guangdong), a     *)
(* fixed bracketing that keeps the prefix and substring relations of the   *)
(* rune sequences.                                                         *)
(*                                                                         *)
(* Time is the cache's cached clock `now`, counted in ticks.               *)
(***************************************************************************)
EXTENDS Integers, Sequences, FiniteSets, TLC

(***************************************************************************)
(* Bounds of the model.  QueueSize, shardCap and PersistChCap stand for    *)
(* the program's 4096, 2000 and 2048, scaled down so that a full queue, a  *)
(* full shard and a full persistence channel are reached; likewise         *)
(* persistBatchSize stands for the program's 100.                          *)
(***************************************************************************)
NumHandlers == 2
NumWorkers == 2
MaxRequests == 3
MaxNow == 2
QueueSize == 1
shardCap == 1
PersistChCap == 1
NumCallers == 2
NumClosers == 2
NumReaders == 2
persistBatchSize == 2

\* program constants (cache package)
shardCount == 256
shardMask == shardCount - 1

Handlers == 1..NumHandlers
Workers == 1..NumWorkers
Callers == 1..NumCallers
Closers == 1..NumClosers
Readers == 1..NumReaders

\* request paths (the text after the leading "/") offered to the handler
RawIPs ==
    { "1.2.3.4", "1.2.3.5", "3.2.1.1", "::ffff:1.2.3.5", "::1", "" }

\* configurations: cache_ttl_seconds (in ticks) and cache_refresh_ratio (percent)
TTLChoices == {0, 2}
RatioChoices == {0, 50}

\* cache_refresh_ratio values that cache.New coerces to 0 as well
AllRatioChoices == RatioChoices \cup {-10, 100}

\* what Provider.Fetch can return on success: (province, isp) as received
ProviderInfos ==
    { [Province |-> "[24191][19996][30465]", ISP |-> "[20013][22269][30005][20449]"],
      [Province |-> "Mars", ISP |-> "AOL"] }

VARIABLES
    now,            \* Cache.now: the cached clock
    ttl,            \* Cache.ttl
    refreshWindow,  \* Cache.refreshWindow
    items,          \* the bindings of all shards: key -> entry
    count,          \* Cache.count
    droppedUpdates, \* Cache.droppedUpdates
    persistCh,      \* Cache.persistCh: sequence of persistenceOp
    closed,         \* Cache.closed
    queue,          \* Manager.queue: sequence of raw IPs
    inflight,       \* inflightSet.m
    hpc, hraw,      \* request handlers: position and request path
    wpc, wraw,      \* workers: position and dequeued raw IP
    winfo,          \* workers: the IPInfo that Provider.Fetch returned
    crashed,        \* the process died of an unrecovered panic in a worker
    nops,           \* operations admitted so far: requests, or writes through the cache API
    resp,           \* the response the step just taken wrote, if any
    call,           \* the cache API call the step just taken made, if any
    owed,           \* per key, successful TryAdd calls minus Delete calls on the inflight set
    ratio,          \* cfg.CacheRefreshRatio, the percentage NewManager passes on as a fraction
    store,          \* the rows of table ip_cache: key -> (value, exp, refresh_at)
    writer,         \* the persistence writer goroutine: none, open, run, failed, done
    batch,          \* the writer's batch: sequence of persistenceOp
    stopClosed,     \* Cache.stop has been closed
    clockOn,        \* the goroutine of startClock has not returned
    sweepOn,        \* the goroutine of startCleanup has not returned
    cpc,            \* callers of Close: position
    spc, sop,       \* callers of Set and Delete: position, and the op they offer to sendToPersist
    roDB,           \* Cache.roDB is not nil
    debt,           \* ops accepted before Close was called and not yet committed to the store
    mon,            \* Monitor: TotalRequests, SuccessCount, FailCount, ConsecutiveErr
    norm,           \* the normalizer at work: its input, the IPInfo and the tags it made
    mpc,            \* Manager.Stop: its position; the queue is closed once it left "run"
    dbPath,         \* Cache.dbPath is not empty
    roOpens,        \* how many read-only connections sql.Open has returned so far
    rpc, rdb        \* callers of GetAllItems: position, and the handle they took from roDB

cacheVars == <<now, ttl, refreshWindow, items, count, droppedUpdates, persistCh, closed>>
mgrVars == <<queue, inflight, hpc, hraw, wpc, wraw, winfo, crashed, owed>>
lifeVars == <<ratio, store, writer, batch, stopClosed, clockOn, sweepOn, cpc, spc, sop, roDB, debt>>
roVars == <<dbPath, roOpens, rpc, rdb>>
sideVars == <<mon, norm, mpc, roVars>>
vars == <<cacheVars, mgrVars, lifeVars, nops, resp, call, sideVars>>

-----------------------------------------------------------------------------
(* Text helpers *)

Char(s, i) == SubSeq(s, i, i)

Digits == "0123456789"
UpperCase == "ABCDEFGHIJKLMNOPQRSTUVWXYZ"
LowerCase == "abcdefghijklmnopqrstuvwxyz"

IndexIn(c, alphabet) ==
    IF \E i \in 1..Len(alphabet) : Char(alphabet, i) = c
    THEN CHOOSE i \in 1..Len(alphabet) : Char(alphabet, i) = c
    ELSE 0

IsDigit(c) == IndexIn(c, Digits) > 0

\* the byte value of an ASCII character of a key
ByteOf(c) ==
    IF IndexIn(c, Digits) > 0 THEN 47 + IndexIn(c, Digits)
    ELSE IF IndexIn(c, UpperCase) > 0 THEN 64 + IndexIn(c, UpperCase)
    ELSE IF IndexIn(c, LowerCase) > 0 THEN 96 + IndexIn(c, LowerCase)
    ELSE IF c = "." THEN 46
    ELSE IF c = ":" THEN 58
    ELSE IF c = "_" THEN 95
    ELSE IF c = "[" THEN 91
    ELSE IF c = "]" THEN 93
    ELSE 32

RECURSIVE BitXor(_, _)
BitXor(a, b) ==
    IF a = 0 THEN b
    ELSE IF b = 0 THEN a
    ELSE (((a % 2) + (b % 2)) % 2) + 2 * BitXor(a \div 2, b \div 2)

RECURSIVE BitAnd(_, _)
BitAnd(a, b) ==
    IF a = 0 \/ b = 0 THEN 0
    ELSE ((a % 2) * (b % 2)) + 2 * BitAnd(a \div 2, b \div 2)

HasPrefix(s, p) == Len(p) <= Len(s) /\ SubSeq(s, 1, Len(p)) = p

Contains(s, sub) ==
    \E i \in 1..(Len(s) - Len(sub) + 1) : SubSeq(s, i, i + Len(sub) - 1) = sub

RECURSIVE MapChars(_, _, _)
\* s with every character found in `from` replaced by the one at the same place in `to`
MapChars(s, from, to) ==
    IF s = "" THEN ""
    ELSE LET c == Char(s, 1)
             i == IndexIn(c, from)
         IN  (IF i > 0 THEN Char(to, i) ELSE c) \o MapChars(SubSeq(s, 2, Len(s)), from, to)

ToLower(s) == MapChars(s, UpperCase, LowerCase)
ToUpper(s) == MapChars(s, LowerCase, UpperCase)

RECURSIVE TrimLeft(_)
TrimLeft(s) == IF s # "" /\ Char(s, 1) = " " THEN TrimLeft(SubSeq(s, 2, Len(s))) ELSE s

RECURSIVE TrimRight(_)
TrimRight(s) == IF s # "" /\ Char(s, Len(s)) = " " THEN TrimRight(SubSeq(s, 1, Len(s) - 1)) ELSE s

TrimSpace(s) == TrimRight(TrimLeft(s))

-----------------------------------------------------------------------------
(* package model: the tag normalizer *)

cnMap ==
    << <<"[21271][20140]", "beijing">>, <<"[22825][27941]", "tianjin">>,
       <<"[27827][21271]", "hebei">>, <<"[23665][35199]", "shanxi">>,
       <<"[20869][33945][21476]", "neimenggu">>, <<"[36797][23425]", "liaoning">>,
       <<"[21513][26519]", "jilin">>, <<"[40657][40857][27743]", "heilongjiang">>,
       <<"[19978][28023]", "shanghai">>, <<"[27743][33487]", "jiangsu">>,
       <<"[27993][27743]", "zhejiang">>, <<"[23433][24509]", "anhui">>,
       <<"[31119][24314]", "fujian">>, <<"[27743][35199]", "jiangxi">>,
       <<"[23665][19996]", "shandong">>, <<"[27827][21335]", "henan">>,
       <<"[28246][21271]", "hubei">>, <<"[28246][21335]", "hunan">>,
       <<"[24191][19996]", "guangdong">>, <<"[24191][35199]", "guangxi">>,
       <<"[28023][21335]", "hainan">>, <<"[37325][24198]", "chongqing">>,
       <<"[22235][24029]", "sichuan">>, <<"[36149][24030]", "guizhou">>,
       <<"[20113][21335]", "yunnan">>, <<"[35199][34255]", "xizang">>,
       <<"[38485][35199]", "shaanxi">>, <<"[29976][32899]", "gansu">>,
       <<"[38738][28023]", "qinghai">>, <<"[23425][22799]", "ningxia">>,
       <<"[26032][30086]", "xinjiang">>, <<"[39321][28207]", "hk">>,
       <<"[28595][38376]", "mo">>, <<"[21488][28286]", "tw">> >>

\* a trie of the Chinese names only
provinceTrieNamesOnly == { cnMap[i] : i \in 1..Len(cnMap) }

\* the trie after init(): every inserted key with the code stored at its node
provinceTrieRoot ==
    { cnMap[i] : i \in 1..Len(cnMap) } \cup { <<cnMap[i][2], cnMap[i][2]>> : i \in 1..Len(cnMap) }

RECURSIVE trieWalk(_, _)
\* the walk of matchPrefix after i characters of the input
trieWalk(input, i) ==
    IF i > Len(input) THEN ""
    ELSE LET p == SubSeq(input, 1, i)
         IN  IF ~ \E kc \in provinceTrieRoot : HasPrefix(kc[1], p) THEN ""
             ELSE IF \E kc \in provinceTrieRoot : kc[1] = p
                  THEN (CHOOSE kc \in provinceTrieRoot : kc[1] = p)[2]
                  ELSE trieWalk(input, i + 1)

matchPrefix(input) == trieWalk(input, 1)

ispRules ==
    << [Code |-> "ct",   Keywords |-> {"[30005][20449]", "TELECOM", "CHINANET"}],
       [Code |-> "cu",   Keywords |-> {"[32852][36890]", "UNICOM"}],
       [Code |-> "cmcc", Keywords |-> {"[31227][21160]", "MOBILE", "TIETONG", "[38081][36890]"}],
       [Code |-> "edu",  Keywords |-> {"[25945][32946]", "EDU", "CERNET"}],
       [Code |-> "gwbn", Keywords |-> {"[38271][22478]", "GWBN"}],
       [Code |-> "cbn",  Keywords |-> {"[24191][30005]", "CABLE", "CBN"}] >>

detectProvinceCode(info) ==
    LET raw == TrimSpace(info.Province)
    IN  IF raw = "" THEN info.ProvinceCode
        ELSE LET code == matchPrefix(ToLower(raw))
             IN  IF code # "" THEN code ELSE info.ProvinceCode

detectISPCode(info) ==
    LET raw == ToUpper(TrimSpace(info.ISP))
        hit(r) == \E kw \in ispRules[r].Keywords : Contains(raw, kw)
    IN  IF raw = "" THEN info.ISPCode
        ELSE IF \E r \in 1..Len(ispRules) : hit(r)
             THEN ispRules[CHOOSE r \in 1..Len(ispRules) :
                              hit(r) /\ \A q \in 1..(r - 1) : ~ hit(q)].Code
             ELSE info.ISPCode

Standardize(info) ==
    [info EXCEPT !.ProvinceCode = detectProvinceCode(info), !.ISPCode = detectISPCode(info)]

\* ToTag with the two codes in the wrong order
ToTagSwapped(info) ==
    IF info.ProvinceCode = "" \/ info.ISPCode = "" THEN "fallback"
    ELSE info.ISPCode \o "_" \o info.ProvinceCode

ToTag(info) ==
    IF info.ProvinceCode = "" \/ info.ISPCode = "" THEN "fallback"
    ELSE info.ProvinceCode \o "_" \o info.ISPCode

\* the IPInfo a provider builds from the (province, isp) of its API response
NewIPInfo(pi) ==
    [Province |-> pi.Province, ISP |-> pi.ISP, ProvinceCode |-> "", ISPCode |-> ""]

\* info.Standardize(); tag := info.ToTag()
TagOf(pi) == ToTag(Standardize(NewIPInfo(pi)))

-----------------------------------------------------------------------------
(* package worker: request parsing and the cache key *)

RECURSIVE keyScan(_, _, _)
\* the loop of getCacheKey at index i (1-based) with `dot` dots seen
keyScan(ip, i, dot) ==
    IF i > Len(ip) THEN ip
    ELSE IF Char(ip, i) = "."
         THEN IF dot + 1 = 3 THEN SubSeq(ip, 1, i - 1) ELSE keyScan(ip, i + 1, dot + 1)
         ELSE keyScan(ip, i + 1, dot)

getCacheKey(ip) == keyScan(ip, 1, 0)

RECURSIVE SplitDots(_)
\* the fields of s between its dots
SplitDots(s) ==
    IF \E i \in 1..Len(s) : Char(s, i) = "."
    THEN LET i == CHOOSE j \in 1..Len(s) :
                      Char(s, j) = "." /\ \A q \in 1..(j - 1) : Char(s, q) # "."
         IN  <<SubSeq(s, 1, i - 1)>> \o SplitDots(SubSeq(s, i + 1, Len(s)))
    ELSE <<s>>

RECURSIVE DecValue(_)
DecValue(f) ==
    IF f = "" THEN 0
    ELSE 10 * DecValue(SubSeq(f, 1, Len(f) - 1)) + (IndexIn(Char(f, Len(f)), Digits) - 1)

IsOctet(f) ==
    /\ Len(f) \in 1..3
    /\ \A i \in 1..Len(f) : IsDigit(Char(f, i))
    /\ (Len(f) > 1 => Char(f, 1) # "0")
    /\ DecValue(f) <= 255

IsDottedQuad(s) ==
    LET fs == SplitDots(s)
    IN  Len(fs) = 4 /\ \A i \in 1..4 : IsOctet(fs[i])

IsHextet(f) ==
    /\ Len(f) \in 1..4
    /\ \A i \in 1..Len(f) : IndexIn(Char(f, i), "0123456789abcdefABCDEF") > 0

\* net.ParseIP followed by To4, on the literals the model offers: a dotted quad,
\* or "::" followed by nothing, one hextet, a dotted quad, or "ffff:" and a
\* dotted quad (the IPv4-mapped form, for which To4 returns the four bytes).
\* quad is the IPv4 address in dotted form when To4 is not nil.
ParseIP(s) ==
    IF IsDottedQuad(s)
    THEN [valid |-> TRUE, to4 |-> TRUE, quad |-> s]
    ELSE IF HasPrefix(s, "::ffff:") /\ IsDottedQuad(SubSeq(s, 8, Len(s)))
    THEN [valid |-> TRUE, to4 |-> TRUE, quad |-> SubSeq(s, 8, Len(s))]
    ELSE IF HasPrefix(s, "::")
            /\ LET rest == SubSeq(s, 3, Len(s))
               IN  rest = "" \/ IsHextet(rest) \/ IsDottedQuad(rest)
    THEN [valid |-> TRUE, to4 |-> FALSE, quad |-> ""]
    ELSE [valid |-> FALSE, to4 |-> FALSE, quad |-> ""]

\* the request paths that HandleUpdate accepts
ValidRaw(raw) == raw # "" /\ raw # "favicon.ico" /\ ParseIP(raw).valid /\ ParseIP(raw).to4

\* the /24 network of an accepted address: the first three octets of its four bytes
Net24(raw) ==
    LET fs == SplitDots(ParseIP(raw).quad)
    IN  fs[1] \o "." \o fs[2] \o "." \o fs[3]

ValidRaws == { r \in RawIPs : ValidRaw(r) }

\* the values of getCacheKey and of the /24 network on the accepted request paths
KeyOf == [raw \in ValidRaws |-> getCacheKey(raw)]
NetOf == [raw \in ValidRaws |-> Net24(raw)]

Keys == { KeyOf[raw] : raw \in ValidRaws }

\* the tag the worker stores for each provider result
TagFor == [pi \in ProviderInfos |-> TagOf(pi)]

-----------------------------------------------------------------------------
(* package cache *)

RECURSIVE fnvLow(_, _, _)
\* FNV-1a over the bytes of key from index i.  getShard keeps only the low 8
\* bits of the 64-bit hash (h & shardMask), and the low 8 bits of h ^ b and of
\* h * 1099511628211 depend only on the low 8 bits of h, so the hash is
\* computed modulo 256: 14695981039346656037 % 256 = 37, 1099511628211 % 256 = 179.
fnvLow(key, i, h) ==
    IF i > Len(key) THEN h
    ELSE fnvLow(key, i + 1, (BitXor(h, ByteOf(Char(key, i))) * 179) % 256)

\* the index of the shard of key
getShard(key) == BitAnd(fnvLow(key, 1, 37), shardMask)

ShardOf == [k \in Keys |-> getShard(k)]

\* the keys bound in shard s
shardKeys(its, s) == { k \in DOMAIN its : ShardOf[k] = s }

Miss == [value |-> "", found |-> FALSE, needsRefresh |-> FALSE, remaining |-> 0]

\* Get without the comparison of the clock with exp
GetIgnoringExpiry(key) ==
    IF key \notin DOMAIN items
    THEN Miss
    ELSE [value |-> items[key].value, found |-> TRUE,
          needsRefresh |-> (refreshWindow > 0 /\ now >= items[key].refreshAt),
          remaining |-> items[key].exp - now]

\* Get with the comparison of the clock with refreshAt inverted
GetRefreshInverted(key) ==
    IF key \notin DOMAIN items \/ now >= items[key].exp
    THEN Miss
    ELSE [value |-> items[key].value, found |-> TRUE,
          needsRefresh |-> (refreshWindow > 0 /\ now < items[key].refreshAt),
          remaining |-> items[key].exp - now]

\* Cache.Get
Get(key) ==
    IF key \notin DOMAIN items \/ now >= items[key].exp
    THEN Miss
    ELSE [value |-> items[key].value, found |-> TRUE,
          needsRefresh |-> (refreshWindow > 0 /\ now >= items[key].refreshAt),
          remaining |-> items[key].exp - now]

\* the entry Set builds from the cached clock
newEntry(val) ==
    [value |-> val, exp |-> now + ttl, refreshAt |-> (now + ttl) - refreshWindow]

\* Cache.sendToPersist: the channel and the drop counter after offering op
sendToPersist(ch, dropped, op) ==
    IF closed = 1 THEN [ch |-> ch, dropped |-> dropped + 1]
    ELSE IF Len(ch) < PersistChCap THEN [ch |-> Append(ch, op), dropped |-> dropped]
    ELSE [ch |-> ch, dropped |-> dropped + 1]

\* the counter after a sweep that forgets to count what it removed
sweptCountForgotten(cnt, gone) == cnt

\* cleanupShard: the counter after the keys of gone are deleted
sweptCount(cnt, gone) == cnt - Cardinality(gone)

\* its without the binding of key
Unbind(its, key) == [k \in (DOMAIN its) \ {key} |-> its[k]]

\* its with key bound to e
Bind(its, key, e) == [k \in (DOMAIN its) \cup {key} |-> IF k = key THEN e ELSE its[k]]

\* no key: the write removes nothing
NoVictim == ""

\* victims with the capacity test off by one: a full shard takes one more key
victimsLate(its, key) ==
    IF key \notin DOMAIN its /\ Cardinality(shardKeys(its, ShardOf[key])) > shardCap
    THEN shardKeys(its, ShardOf[key])
    ELSE {}

\* the keys one of which a write of the new key `key` removes first
victims(its, key) ==
    IF key \notin DOMAIN its /\ Cardinality(shardKeys(its, ShardOf[key])) >= shardCap
    THEN shardKeys(its, ShardOf[key])
    ELSE {}

\* the locked section shared by Set and SetWithTime, with victim the key the
\* range loop meets first when the shard is full (NoVictim when nothing is removed)
storeEntry(key, e, victim) ==
    /\ IF victims(items, key) = {} THEN victim = NoVictim ELSE victim \in victims(items, key)
    /\ IF key \in DOMAIN items
       THEN /\ items' = Bind(items, key, e)
            /\ count' = count
       ELSE IF victim # NoVictim
       THEN /\ items' = Bind(Unbind(items, victim), key, e)
            /\ count' = (count - 1) + 1
       ELSE /\ items' = Bind(items, key, e)
            /\ count' = count + 1

\* Cache.Set
Set(key, val, victim) ==
    LET e == newEntry(val)
        p == sendToPersist(persistCh, droppedUpdates,
                 [IsDelete |-> FALSE, Key |-> key, Value |-> val,
                  Exp |-> e.exp, RefreshAt |-> e.refreshAt])
    IN  /\ storeEntry(key, e, victim)
        /\ persistCh' = p.ch
        /\ droppedUpdates' = p.dropped

\* a SetWithTime that ends, as Set does, with sendToPersist
SetWithTimePersisted(key, val, exp, refreshAt, victim) ==
    LET p == sendToPersist(persistCh, droppedUpdates,
                 [IsDelete |-> FALSE, Key |-> key, Value |-> val,
                  Exp |-> exp, RefreshAt |-> refreshAt])
    IN  /\ storeEntry(key, [value |-> val, exp |-> exp, refreshAt |-> refreshAt], victim)
        /\ persistCh' = p.ch
        /\ droppedUpdates' = p.dropped

\* Cache.SetWithTime
SetWithTime(key, val, exp, refreshAt, victim) ==
    /\ storeEntry(key, [value |-> val, exp |-> exp, refreshAt |-> refreshAt], victim)
    /\ UNCHANGED <<persistCh, droppedUpdates>>

\* Cache.Delete
Delete(key) ==
    IF key \in DOMAIN items
    THEN LET p == sendToPersist(persistCh, droppedUpdates,
                      [IsDelete |-> TRUE, Key |-> key, Value |-> "", Exp |-> 0, RefreshAt |-> 0])
         IN  /\ items' = Unbind(items, key)
             /\ count' = count - 1
             /\ persistCh' = p.ch
             /\ droppedUpdates' = p.dropped
    ELSE UNCHANGED <<items, count, persistCh, droppedUpdates>>

\* a caller of Delete holds the write lock of shard s: Delete sends its op
\* before its deferred Unlock
shardLocked(s) ==
    \E c \in Callers : spc[c] # "idle" /\ sop[c].IsDelete /\ ShardOf[sop[c].Key] = s

\* cleanupShard with the comparison of t with exp inverted
expiredInInverted(its, s, t) == { k \in shardKeys(its, s) : t <= its[k].exp }

\* the keys cleanupShard removes from shard s when called with the clock value t
expiredIn(its, s, t) == { k \in shardKeys(its, s) : t >= its[k].exp }

\* the shards that can hold a key of the model (cleanupShard on any other
\* shard finds an empty map)
UsedShards == { ShardOf[k] : k \in Keys }

-----------------------------------------------------------------------------
(* Initial state: cache.New and NewManager *)

\* the refresh window without the coercion of the ratio
windowOfUncoerced(t, pct) == (t * pct) \div 100

\* NewManager: ratio := CacheRefreshRatio / 100; New: a ratio outside [0, 1) becomes 0
windowOf(t, pct) == IF pct < 0 \/ pct >= 100 THEN 0 ELSE (t * pct) \div 100

EmptyItems == [k \in {} |-> Miss]

NoResp == [raw |-> "", code |-> 0, body |-> ""]
NoInfo == [Province |-> "", ISP |-> ""]
NoCall == [op |-> "none", key |-> "", result |-> Miss]

\* the persistent store before the process starts: no table yet, or the rows
\* an earlier run left behind
EmptyStore == [k \in {} |-> [value |-> "", exp |-> 0, refreshAt |-> 0]]
InitialStores ==
    { EmptyStore,
      [k \in {"1.2.3", "3.2.1"} |->
          IF k = "1.2.3" THEN [value |-> "guangdong_ct", exp |-> 1, refreshAt |-> 1]
                         ELSE [value |-> "fallback", exp |-> 2, refreshAt |-> 1]] }

NoOp == [IsDelete |-> FALSE, Key |-> "", Value |-> "", Exp |-> 0, RefreshAt |-> 0]

\* monitor.New: all counters zero
NewMonitor == [TotalRequests |-> 0, SuccessCount |-> 0, FailCount |-> 0, ConsecutiveErr |-> 0]

\* the normalizer before it is given anything
NoNorm ==
    [in |-> [Province |-> "", ISP |-> ""],
     info |-> NewIPInfo([Province |-> "", ISP |-> ""]),
     tag |-> "", again |-> "", step |-> 0]

\* no store path, no read-only connection opened, nobody in GetAllItems
InitRO ==
    /\ dbPath = FALSE
    /\ roOpens = 0
    /\ rpc = [r \in Readers |-> "idle"]
    /\ rdb = [r \in Readers |-> 0]

\* cache.New: both tickers started, no store path, no writer; nobody is calling
InitLife ==
    /\ writer = "none"
    /\ batch = <<>>
    /\ stopClosed = FALSE
    /\ clockOn = TRUE
    /\ sweepOn = TRUE
    /\ cpc = [c \in Closers |-> "idle"]
    /\ spc = [c \in Callers |-> "idle"]
    /\ sop = [c \in Callers |-> NoOp]
    /\ roDB = FALSE
    /\ debt = 0
    /\ mon = NewMonitor

InitWith(n) ==
    /\ now = 0
    /\ ttl \in { t \in TTLChoices : t > 0 }
    /\ ratio \in RatioChoices
    /\ refreshWindow = windowOf(ttl, ratio)
    /\ store = EmptyStore
    /\ InitLife
    /\ items = EmptyItems
    /\ count = 0
    /\ droppedUpdates = 0
    /\ persistCh = <<>>
    /\ closed = 0
    /\ queue = <<>>
    /\ inflight = {}
    /\ hpc = [h \in Handlers |-> "idle"]
    /\ hraw = [h \in Handlers |-> ""]
    /\ wpc = [w \in Workers |-> "idle"]
    /\ wraw = [w \in Workers |-> ""]
    /\ winfo = [w \in Workers |-> NoInfo]
    /\ crashed = FALSE
    /\ owed = [k \in Keys |-> 0]
    /\ nops = 0
    /\ resp = NoResp
    /\ call = NoCall
    /\ norm = n
    /\ mpc = "run"
    /\ InitRO

Init == InitWith(NoNorm)

-----------------------------------------------------------------------------
(* Background goroutines of the cache *)

\* startClock: the ticker stores the current time into now
Tick ==
    /\ ~crashed
    /\ clockOn
    /\ now < MaxNow
    /\ now' = now + 1
    /\ resp' = NoResp /\ call' = NoCall
    /\ UNCHANGED <<ttl, refreshWindow, items, count, droppedUpdates, persistCh, closed>>
    /\ UNCHANGED lifeVars
    /\ UNCHANGED <<mgrVars, nops>>
    /\ UNCHANGED sideVars

\* startCleanup: cleanupShard(c.shards[s], t).  A sweep loads now once, when
\* its ticker fires, and then visits the shards one by one, sleeping in
\* between, so the t a shard is cleaned with is a value the clock had at or
\* before the moment the shard is cleaned.  A cleanup that finds nothing
\* expired changes nothing and is left to stuttering.
SweepShard(s, t) ==
    /\ ~crashed
    /\ sweepOn
    /\ ~shardLocked(s)
    /\ t <= now
    /\ LET gone == expiredIn(items, s, t)
       IN  /\ gone # {}
           /\ items' = [k \in (DOMAIN items) \ gone |-> items[k]]
           /\ count' = sweptCount(count, gone)
    /\ resp' = NoResp /\ call' = NoCall
    /\ UNCHANGED <<now, ttl, refreshWindow, droppedUpdates, persistCh, closed>>
    /\ UNCHANGED lifeVars
    /\ UNCHANGED <<mgrVars, nops>>
    /\ UNCHANGED sideVars

-----------------------------------------------------------------------------
(* package worker: the inflight set and the work queue *)

\* TryAdd without the membership test
TryAddUnchecked(m, key) == [ok |-> TRUE, m |-> m \cup {key}]

\* inflightSet.TryAdd: whether key was added, and the set afterwards
TryAdd(m, key) ==
    IF key \in m THEN [ok |-> FALSE, m |-> m] ELSE [ok |-> TRUE, m |-> m \cup {key}]

\* Delete that leaves the key in the set
inflightDeleteForgotten(m, key) == m

\* inflightSet.Delete
inflightDelete(m, key) == m \ {key}

\* a send that ignores the capacity of the queue
trySendUnbounded(q, raw) == [ok |-> TRUE, q |-> Append(q, raw)]

\* select { case m.queue <- rawIP: ... default: ... }: whether the send
\* happened, and the queue afterwards
trySend(q, raw) ==
    IF Len(q) < QueueSize THEN [ok |-> TRUE, q |-> Append(q, raw)] ELSE [ok |-> FALSE, q |-> q]

-----------------------------------------------------------------------------
(* Manager.HandleUpdate, one action per access to shared state *)

\* lines 149-187: validation, cache lookup, and the response of a hit
HandleRequest(h, raw, c) ==
    /\ ~crashed
    /\ hpc[h] = "idle"
    /\ nops < MaxRequests
    /\ nops' = nops + 1
    /\ IF raw = "" \/ raw = "favicon.ico"
       THEN /\ resp' = [raw |-> raw, code |-> 400, body |-> ""]
            /\ UNCHANGED <<hpc, hraw>>
       ELSE IF ~ParseIP(raw).valid
       THEN /\ resp' = [raw |-> raw, code |-> 400, body |-> "invalid ip format"]
            /\ UNCHANGED <<hpc, hraw>>
       ELSE IF ~ParseIP(raw).to4
       THEN /\ resp' = [raw |-> raw, code |-> 400, body |-> "only ipv4 supported"]
            /\ UNCHANGED <<hpc, hraw>>
       ELSE LET g == Get(KeyOf[raw])
            IN  IF g.found
                THEN /\ resp' = [raw |-> raw, code |-> 200, body |-> g.value]
                     /\ IF g.needsRefresh
                        THEN /\ hpc' = [hpc EXCEPT ![h] = "tryadd_refresh"]
                             /\ hraw' = [hraw EXCEPT ![h] = raw]
                        ELSE UNCHANGED <<hpc, hraw>>
                ELSE /\ resp' = NoResp
                     /\ hpc' = [hpc EXCEPT ![h] = "tryadd_miss"]
                     /\ hraw' = [hraw EXCEPT ![h] = raw]
    /\ call' = c
    /\ UNCHANGED <<cacheVars, lifeVars>>
    /\ UNCHANGED <<queue, inflight, wpc, wraw, winfo, crashed, owed>>
    /\ UNCHANGED sideVars

\* close(m.queue) has been executed
queueClosed(pc) == pc # "run"

\* a request whose method is not followed
HandleStart(h, raw) == HandleRequest(h, raw, NoCall)

\* HandleUpdate as the mux of main calls it: pattern "/", so for every method
HandleUpdate(h, method, raw) ==
    HandleRequest(h, raw, [op |-> method, key |-> raw, result |-> Miss])

\* inflight.TryAdd(cacheKey) on line 177 (refresh) or 191 (miss)
HandleTryAdd(h) ==
    /\ ~crashed
    /\ hpc[h] \in {"tryadd_miss", "tryadd_refresh"}
    /\ LET key == KeyOf[hraw[h]]
           r == TryAdd(inflight, key)
       IN  /\ inflight' = r.m
           /\ IF r.ok
              THEN /\ owed' = [owed EXCEPT ![key] = @ + 1]
                   /\ hpc' = [hpc EXCEPT ![h] = IF hpc[h] = "tryadd_miss" THEN "send_miss" ELSE "send_refresh"]
                   /\ hraw' = hraw
                   /\ resp' = NoResp
              ELSE /\ owed' = owed
                   /\ hpc' = [hpc EXCEPT ![h] = "idle"]
                   /\ hraw' = [hraw EXCEPT ![h] = ""]
                   /\ resp' = IF hpc[h] = "tryadd_miss"
                              THEN [raw |-> hraw[h], code |-> 202, body |-> ""]
                              ELSE NoResp
    /\ call' = NoCall
    /\ UNCHANGED <<cacheVars, lifeVars>>
    /\ UNCHANGED <<queue, wpc, wraw, winfo, crashed, nops>>
    /\ UNCHANGED sideVars

\* the select on lines 179-183 (refresh) or 196-202 (miss): a non-blocking send
HandleSend(h) ==
    /\ ~crashed
    /\ hpc[h] \in {"send_miss", "send_refresh"}
    /\ IF queueClosed(mpc)
       THEN \* the send case of the select panics; net/http recovers the
            \* panic of a handler and drops the connection
            /\ hpc' = [hpc EXCEPT ![h] = "panicked"]
            /\ hraw' = hraw
            /\ queue' = queue
            /\ resp' = NoResp
       ELSE LET r == trySend(queue, hraw[h])
            IN  /\ queue' = r.q
                /\ IF r.ok
                   THEN /\ hpc' = [hpc EXCEPT ![h] = "idle"]
                        /\ hraw' = [hraw EXCEPT ![h] = ""]
                        /\ resp' = IF hpc[h] = "send_miss"
                                   THEN [raw |-> hraw[h], code |-> 202, body |-> ""]
                                   ELSE NoResp
                   ELSE /\ hpc' = [hpc EXCEPT ![h] = IF hpc[h] = "send_miss" THEN "undo_miss" ELSE "undo_refresh"]
                        /\ hraw' = hraw
                        /\ resp' = NoResp
    /\ call' = NoCall
    /\ UNCHANGED <<cacheVars, lifeVars>>
    /\ UNCHANGED <<inflight, wpc, wraw, winfo, crashed, owed, nops>>
    /\ UNCHANGED sideVars

\* the default branch: inflight.Delete(cacheKey), and 429 on the miss path
HandleUndo(h) ==
    /\ ~crashed
    /\ hpc[h] \in {"undo_miss", "undo_refresh"}
    /\ LET key == KeyOf[hraw[h]]
       IN  /\ inflight' = inflightDelete(inflight, key)
           /\ owed' = [owed EXCEPT ![key] = @ - 1]
    /\ hpc' = [hpc EXCEPT ![h] = "idle"]
    /\ hraw' = [hraw EXCEPT ![h] = ""]
    /\ resp' = IF hpc[h] = "undo_miss"
               THEN [raw |-> hraw[h], code |-> 429, body |-> ""]
               ELSE NoResp
    /\ call' = NoCall
    /\ UNCHANGED <<cacheVars, lifeVars>>
    /\ UNCHANGED <<queue, wpc, wraw, winfo, crashed, nops>>
    /\ UNCHANGED sideVars

-----------------------------------------------------------------------------
(* Manager.worker *)

\* for rawIP := range m.queue
WorkerDequeue(w) ==
    /\ ~crashed
    /\ wpc[w] = "idle"
    /\ queue # <<>>
    /\ wraw' = [wraw EXCEPT ![w] = Head(queue)]
    /\ queue' = Tail(queue)
    /\ wpc' = [wpc EXCEPT ![w] = "check"]
    /\ resp' = NoResp /\ call' = NoCall
    /\ UNCHANGED <<cacheVars, lifeVars>>
    /\ UNCHANGED <<inflight, hpc, hraw, winfo, crashed, owed, nops>>
    /\ UNCHANGED sideVars

\* lines 215-225: the re-check of the cache, then the call of Provider.Fetch
WorkerCheck(w) ==
    /\ ~crashed
    /\ wpc[w] = "check"
    /\ LET g == Get(KeyOf[wraw[w]])
       IN  /\ wpc' = [wpc EXCEPT ![w] = IF g.found /\ ~g.needsRefresh THEN "release" ELSE "fetch"]
           /\ call' = [op |-> "Get", key |-> KeyOf[wraw[w]], result |-> g]
    /\ resp' = NoResp
    /\ UNCHANGED <<cacheVars, lifeVars>>
    /\ UNCHANGED <<queue, inflight, hpc, hraw, wraw, winfo, crashed, owed, nops>>
    /\ UNCHANGED sideVars

\* Fetch returns (info, nil) with the province and isp of the provider's answer
WorkerFetchOk(w, pi) ==
    /\ ~crashed
    /\ wpc[w] = "fetch"
    /\ winfo' = [winfo EXCEPT ![w] = pi]
    /\ wpc' = [wpc EXCEPT ![w] = "set"]
    /\ resp' = NoResp /\ call' = NoCall
    /\ UNCHANGED <<cacheVars, lifeVars>>
    /\ UNCHANGED <<queue, inflight, hpc, hraw, wraw, crashed, owed, nops>>
    /\ UNCHANGED sideVars

\* info.Standardize(); tag := info.ToTag(); m.cache.Set(cacheKey, tag) (lines 231-234)
WorkerSet(w, victim) ==
    /\ ~crashed
    /\ wpc[w] = "set"
    /\ Set(KeyOf[wraw[w]], TagFor[winfo[w]], victim)
    /\ wpc' = [wpc EXCEPT ![w] = "release"]
    /\ winfo' = [winfo EXCEPT ![w] = NoInfo]
    /\ resp' = NoResp /\ call' = NoCall
    /\ UNCHANGED <<now, ttl, refreshWindow, closed, lifeVars>>
    /\ UNCHANGED <<queue, inflight, hpc, hraw, wraw, crashed, owed, nops>>
    /\ UNCHANGED sideVars

\* Fetch returns an error, or the deadline of ApiRequestTimeout expires (lines 226-229)
WorkerFetchErr(w) ==
    /\ ~crashed
    /\ wpc[w] = "fetch"
    /\ wpc' = [wpc EXCEPT ![w] = "release"]
    /\ resp' = NoResp /\ call' = NoCall
    /\ UNCHANGED <<cacheVars, lifeVars>>
    /\ UNCHANGED <<queue, inflight, hpc, hraw, wraw, winfo, crashed, owed, nops>>
    /\ UNCHANGED sideVars

\* the provider panics inside Fetch: the closure unwinds through its defers
WorkerFetchPanic(w) ==
    /\ ~crashed
    /\ wpc[w] = "fetch"
    /\ wpc' = [wpc EXCEPT ![w] = "unwind"]
    /\ resp' = NoResp /\ call' = NoCall
    /\ UNCHANGED <<cacheVars, lifeVars>>
    /\ UNCHANGED <<queue, inflight, hpc, hraw, wraw, winfo, crashed, owed, nops>>
    /\ UNCHANGED sideVars

\* defer m.inflight.Delete(cacheKey) (line 213) on return or on panic; nothing
\* recovers the panic, so after the defers the process dies
WorkerRelease(w) ==
    /\ ~crashed
    /\ wpc[w] \in {"release", "unwind"}
    /\ LET key == KeyOf[wraw[w]]
       IN  /\ inflight' = inflightDelete(inflight, key)
           /\ owed' = [owed EXCEPT ![key] = @ - 1]
    /\ wpc' = [wpc EXCEPT ![w] = "idle"]
    /\ wraw' = [wraw EXCEPT ![w] = ""]
    /\ crashed' = (wpc[w] = "unwind")
    /\ resp' = NoResp /\ call' = NoCall
    /\ UNCHANGED <<cacheVars, lifeVars>>
    /\ UNCHANGED <<queue, hpc, hraw, winfo, nops>>
    /\ UNCHANGED sideVars

-----------------------------------------------------------------------------
(* The resolver: handlers, workers and the cache's background goroutines *)

Victims == Keys \cup {NoVictim}

Sweeps == \E s \in UsedShards, t \in 0..MaxNow : SweepShard(s, t)

\* one step of the resolver, with the request paths drawn from raws
\* everything but the arrival of a request
Serve ==
    \/ \E h \in Handlers : HandleTryAdd(h)
    \/ \E h \in Handlers : HandleSend(h)
    \/ \E h \in Handlers : HandleUndo(h)
    \/ \E w \in Workers : WorkerDequeue(w)
    \/ \E w \in Workers : WorkerCheck(w)
    \/ \E w \in Workers, pi \in ProviderInfos : WorkerFetchOk(w, pi)
    \/ \E w \in Workers, victim \in Victims : WorkerSet(w, victim)
    \/ \E w \in Workers : WorkerFetchErr(w)
    \/ \E w \in Workers : WorkerFetchPanic(w)
    \/ \E w \in Workers : WorkerRelease(w)
    \/ Tick
    \/ Sweeps

Step(raws) ==
    \/ \E h \in Handlers, raw \in raws : HandleStart(h, raw)
    \/ Serve

Next == Step(RawIPs)

Spec == Init /\ [][Next]_vars

-----------------------------------------------------------------------------
(* The cache on its own, driven through its exported methods *)

\* values, and (ExpiresAt, RefreshAt) pairs, passed to the cache API
CacheValues == {"guangdong_ct", "fallback"}
TimeChoices == { <<1, 1>>, <<2, 1>> }

InitCache ==
    /\ now = 0
    /\ ttl \in TTLChoices
    /\ ratio \in AllRatioChoices
    /\ refreshWindow = windowOf(ttl, ratio)
    /\ store = EmptyStore
    /\ InitLife
    /\ items = EmptyItems
    /\ count = 0
    /\ droppedUpdates = 0
    /\ persistCh = <<>>
    /\ closed = 0
    /\ queue = <<>>
    /\ inflight = {}
    /\ hpc = [h \in Handlers |-> "idle"]
    /\ hraw = [h \in Handlers |-> ""]
    /\ wpc = [w \in Workers |-> "idle"]
    /\ wraw = [w \in Workers |-> ""]
    /\ winfo = [w \in Workers |-> NoInfo]
    /\ crashed = FALSE
    /\ owed = [k \in Keys |-> 0]
    /\ nops = 0
    /\ resp = NoResp
    /\ call = NoCall
    /\ norm = NoNorm
    /\ mpc = "run"
    /\ InitRO

\* a call of Cache.Get
ApiGet(key) ==
    /\ call' = [op |-> "Get", key |-> key, result |-> Get(key)]
    /\ resp' = NoResp
    /\ UNCHANGED <<cacheVars, mgrVars, lifeVars, nops>>
    /\ UNCHANGED sideVars

\* a call of Cache.Set
ApiSet(key, val, victim) ==
    /\ nops < MaxRequests
    /\ nops' = nops + 1
    /\ Set(key, val, victim)
    /\ call' = [op |-> "Set", key |-> key, result |-> Miss]
    /\ resp' = NoResp
    /\ UNCHANGED <<now, ttl, refreshWindow, closed, mgrVars, lifeVars>>
    /\ UNCHANGED sideVars

\* a call of Cache.SetWithTime
ApiSetWithTime(key, val, exp, refreshAt, victim) ==
    /\ nops < MaxRequests
    /\ nops' = nops + 1
    /\ SetWithTime(key, val, exp, refreshAt, victim)
    /\ call' = [op |-> "SetWithTime", key |-> key, result |-> Miss]
    /\ resp' = NoResp
    /\ UNCHANGED <<now, ttl, refreshWindow, closed, mgrVars, lifeVars>>
    /\ UNCHANGED sideVars

\* a call of Cache.Delete
ApiDelete(key) ==
    /\ nops < MaxRequests
    /\ nops' = nops + 1
    /\ Delete(key)
    /\ call' = [op |-> "Delete", key |-> key, result |-> Miss]
    /\ resp' = NoResp
    /\ UNCHANGED <<now, ttl, refreshWindow, closed, mgrVars, lifeVars>>
    /\ UNCHANGED sideVars

NextCache ==
    \/ \E k \in Keys : ApiGet(k)
    \/ \E k \in Keys, v \in CacheValues, victim \in Victims : ApiSet(k, v, victim)
    \/ \E k \in Keys, v \in CacheValues, tc \in TimeChoices, victim \in Victims :
           ApiSetWithTime(k, v, tc[1], tc[2], victim)
    \/ \E k \in Keys : ApiDelete(k)
    \/ Tick
    \/ Sweeps

SpecCache == InitCache /\ [][NextCache]_vars

-----------------------------------------------------------------------------
(* The cache with its persistence pipeline and its shutdown: the writer      *)
(* goroutine, callers of Set and Delete whose sendToPersist is two steps     *)
(* (the load of closed, then the non-blocking send), and callers of Close.   *)
(* The store does not fail once it is open.  The clock stands still: the     *)
(* steps of this specification take no time.                                 *)

\* the keys and the value written in this specification (the keys share a shard)
PersistKeys == {"1.2.3", "3.2.1"}
PersistValues == {"guangdong_ct"}

\* time.Now() as LoadFromSQLite and cleanExpired read it: at or after the cached clock
WallTimes == 0..(MaxNow + 1)

\* the state after cache.New, beside the store an earlier run left behind
InitRestore ==
    /\ now = 0
    /\ ttl \in TTLChoices
    /\ ratio \in RatioChoices
    /\ refreshWindow = windowOf(ttl, ratio)
    /\ store \in InitialStores
    /\ InitLife
    /\ items = EmptyItems
    /\ count = 0
    /\ droppedUpdates = 0
    /\ persistCh = <<>>
    /\ closed = 0
    /\ queue = <<>>
    /\ inflight = {}
    /\ hpc = [h \in Handlers |-> "idle"]
    /\ hraw = [h \in Handlers |-> ""]
    /\ wpc = [w \in Workers |-> "idle"]
    /\ wraw = [w \in Workers |-> ""]
    /\ winfo = [w \in Workers |-> NoInfo]
    /\ crashed = FALSE
    /\ owed = [k \in Keys |-> 0]
    /\ nops = 0
    /\ resp = NoResp
    /\ call = NoCall
    /\ norm = NoNorm
    /\ mpc = "run"
    /\ InitRO

\* the configuration is the one with a refresh window
InitPersist == InitRestore /\ refreshWindow > 0

\* the bindings and the counter after the locked section of SetWithTime
stored(st, key, e, victim) ==
    IF key \in DOMAIN st.items
    THEN [items |-> Bind(st.items, key, e), count |-> st.count]
    ELSE IF victim # NoVictim
    THEN [items |-> Bind(Unbind(st.items, victim), key, e), count |-> (st.count - 1) + 1]
    ELSE [items |-> Bind(st.items, key, e), count |-> st.count + 1]

\* the keys the range loop of a write of key can meet first
victimChoices(its, key) == IF victims(its, key) = {} THEN {NoVictim} ELSE victims(its, key)

RECURSIVE loadRows(_, _)
\* the loop over rows.Next(): SetWithTime for each row of ks, in the order the
\* query yields them (it has no ORDER BY), from the cache state st; all outcomes
loadRows(st, ks) ==
    IF ks = {} THEN {st}
    ELSE UNION { UNION { loadRows(stored(st, k, store[k], v), ks \ {k})
                         : v \in victimChoices(st.items, k) } : k \in ks }

\* the query with exp >= t
rowsFrom(t) == { k \in DOMAIN store : store[k].exp >= t }

\* SELECT ... FROM ip_cache WHERE exp > t
rowsAfter(t) == { k \in DOMAIN store : store[k].exp > t }

\* Cache.LoadFromSQLite, which NewManager calls on the cache New has just built
LoadFromSQLite(t) ==
    /\ ~crashed
    /\ nops = 0 /\ writer = "none" /\ closed = 0
    /\ items = EmptyItems
    /\ t >= now
    /\ \E r \in loadRows([items |-> items, count |-> count], rowsAfter(t)) :
           items' = r.items /\ count' = r.count
    /\ dbPath' = TRUE
    /\ call' = [op |-> "Load", key |-> "", result |-> Miss]
    /\ resp' = NoResp
    /\ UNCHANGED <<now, ttl, refreshWindow, droppedUpdates, persistCh, closed>>
    /\ UNCHANGED <<mgrVars, lifeVars, nops>>
    /\ UNCHANGED <<mon, norm, mpc, roOpens, rpc, rdb>>

\* Cache.StartPersistence up to its go statement: ensureReadOnlyDB opens the
\* read-only handle or fails, wg.Add(1), the writer goroutine starts
StartPersistence(ro) ==
    /\ ~crashed
    /\ writer = "none" /\ closed = 0
    /\ writer' = "open"
    /\ dbPath' = TRUE
    /\ roDB' = ro
    /\ roOpens' = IF ro THEN roOpens + 1 ELSE roOpens
    /\ resp' = NoResp /\ call' = NoCall
    /\ UNCHANGED <<cacheVars, mgrVars, nops>>
    /\ UNCHANGED <<ratio, store, batch, stopClosed, clockOn, sweepOn, cpc, spc, sop, debt>>
    /\ UNCHANGED <<mon, norm, mpc, rpc, rdb>>

\* the writer opens its connection and creates the table, or fails and returns
WriterOpen(ok) ==
    /\ ~crashed
    /\ writer = "open"
    /\ writer' = IF ok THEN "run" ELSE "failed"
    /\ resp' = NoResp /\ call' = NoCall
    /\ UNCHANGED <<cacheVars, mgrVars, nops>>
    /\ UNCHANGED <<ratio, store, batch, stopClosed, clockOn, sweepOn, cpc, spc, sop, roDB, debt>>
    /\ UNCHANGED sideVars

\* flushBatch, one op: DELETE ... WHERE key = ?, or INSERT OR REPLACE
applyOp(rows, op) ==
    IF op.IsDelete
    THEN [k \in (DOMAIN rows) \ {op.Key} |-> rows[k]]
    ELSE [k \in (DOMAIN rows) \cup {op.Key} |->
             IF k = op.Key
             THEN [value |-> op.Value, exp |-> op.Exp, refreshAt |-> op.RefreshAt]
             ELSE rows[k]]

RECURSIVE applyOpsReversed(_, _)
\* a flush that replays the batch from its last op to its first
applyOpsReversed(rows, b) ==
    IF b = <<>> THEN rows
    ELSE applyOp(applyOpsReversed(rows, Tail(b)), Head(b))

RECURSIVE applyOps(_, _)
\* flushBatch: the rows after the ops of b are replayed in order and committed
applyOps(rows, b) ==
    IF b = <<>> THEN rows
    ELSE applyOps(applyOp(rows, Head(b)), Tail(b))

\* what is left of the debt once n more ops are committed (the channel and
\* the batch are first-in first-out)
paid(d, n) == IF d > n THEN d - n ELSE 0

\* case op := <-c.persistCh: append to the batch, flush when it is full
WriterRecv ==
    /\ ~crashed
    /\ writer = "run"
    /\ persistCh # <<>>
    /\ persistCh' = Tail(persistCh)
    /\ LET b == Append(batch, Head(persistCh))
       IN  IF Len(b) >= persistBatchSize
           THEN store' = applyOps(store, b) /\ batch' = <<>> /\ debt' = paid(debt, Len(b))
           ELSE batch' = b /\ UNCHANGED <<store, debt>>
    /\ resp' = NoResp /\ call' = NoCall
    /\ UNCHANGED <<now, ttl, refreshWindow, items, count, droppedUpdates, closed>>
    /\ UNCHANGED <<mgrVars, nops>>
    /\ UNCHANGED <<ratio, writer, stopClosed, clockOn, sweepOn, cpc, spc, sop, roDB>>
    /\ UNCHANGED sideVars

\* case <-ticker.C: flush() (a flush of an empty batch does nothing)
WriterFlush ==
    /\ ~crashed
    /\ writer = "run"
    /\ batch # <<>>
    /\ store' = applyOps(store, batch)
    /\ batch' = <<>>
    /\ debt' = paid(debt, Len(batch))
    /\ resp' = NoResp /\ call' = NoCall
    /\ UNCHANGED <<cacheVars, mgrVars, nops>>
    /\ UNCHANGED <<ratio, writer, stopClosed, clockOn, sweepOn, cpc, spc, sop, roDB>>
    /\ UNCHANGED sideVars

\* case <-cleanupTicker.C: DELETE FROM ip_cache WHERE exp < t
WriterClean(t) ==
    /\ ~crashed
    /\ writer = "run"
    /\ t >= now
    /\ \E k \in DOMAIN store : store[k].exp < t
    /\ store' = [k \in { j \in DOMAIN store : ~(store[j].exp < t) } |-> store[k]]
    /\ resp' = NoResp /\ call' = NoCall
    /\ UNCHANGED <<cacheVars, mgrVars, nops>>
    /\ UNCHANGED <<ratio, writer, batch, stopClosed, clockOn, sweepOn, cpc, spc, sop, roDB, debt>>
    /\ UNCHANGED sideVars

\* case <-c.stop: flush() and return
WriterStop ==
    /\ ~crashed
    /\ writer = "run"
    /\ stopClosed
    /\ store' = applyOps(store, batch)
    /\ batch' = <<>>
    /\ debt' = paid(debt, Len(batch))
    /\ writer' = "done"
    /\ resp' = NoResp /\ call' = NoCall
    /\ UNCHANGED <<cacheVars, mgrVars, nops>>
    /\ UNCHANGED <<ratio, stopClosed, clockOn, sweepOn, cpc, spc, sop, roDB>>
    /\ UNCHANGED sideVars

\* startClock: case <-c.stop: return
ClockStop ==
    /\ ~crashed
    /\ clockOn /\ stopClosed
    /\ clockOn' = FALSE
    /\ resp' = NoResp /\ call' = NoCall
    /\ UNCHANGED <<cacheVars, mgrVars, nops>>
    /\ UNCHANGED <<ratio, store, writer, batch, stopClosed, sweepOn, cpc, spc, sop, roDB, debt>>
    /\ UNCHANGED sideVars

\* startCleanup: case <-c.stop: return (once the sweep under way, if any, is over)
SweepStop ==
    /\ ~crashed
    /\ sweepOn /\ stopClosed
    /\ sweepOn' = FALSE
    /\ resp' = NoResp /\ call' = NoCall
    /\ UNCHANGED <<cacheVars, mgrVars, nops>>
    /\ UNCHANGED <<ratio, store, writer, batch, stopClosed, clockOn, cpc, spc, sop, roDB, debt>>
    /\ UNCHANGED sideVars

\* a refusal that is not counted
addDroppedForgotten(d) == d

\* atomic.AddInt64(&c.droppedUpdates, 1)
addDropped(d) == d + 1

\* Cache.Set up to its call of sendToPersist: the locked section
CallSet(c, key, val, victim) ==
    /\ ~crashed
    /\ spc[c] = "idle"
    /\ nops < MaxRequests
    /\ ~shardLocked(ShardOf[key])
    /\ nops' = nops + 1
    /\ storeEntry(key, newEntry(val), victim)
    /\ sop' = [sop EXCEPT ![c] = [IsDelete |-> FALSE, Key |-> key, Value |-> val,
                                  Exp |-> newEntry(val).exp,
                                  RefreshAt |-> newEntry(val).refreshAt]]
    /\ spc' = [spc EXCEPT ![c] = "check"]
    /\ call' = [op |-> "Set", key |-> key, result |-> Miss]
    /\ resp' = NoResp
    /\ UNCHANGED <<now, ttl, refreshWindow, droppedUpdates, persistCh, closed, mgrVars>>
    /\ UNCHANGED <<ratio, store, writer, batch, stopClosed, clockOn, sweepOn, cpc, roDB, debt>>
    /\ UNCHANGED sideVars

\* Cache.Delete up to its call of sendToPersist; nothing happens for an unbound key
CallDelete(c, key) ==
    /\ ~crashed
    /\ spc[c] = "idle"
    /\ nops < MaxRequests
    /\ ~shardLocked(ShardOf[key])
    /\ nops' = nops + 1
    /\ IF key \in DOMAIN items
       THEN /\ items' = Unbind(items, key)
            /\ count' = count - 1
            /\ sop' = [sop EXCEPT ![c] = [IsDelete |-> TRUE, Key |-> key, Value |-> "",
                                          Exp |-> 0, RefreshAt |-> 0]]
            /\ spc' = [spc EXCEPT ![c] = "check"]
       ELSE UNCHANGED <<items, count, sop, spc>>
    /\ call' = [op |-> "Delete", key |-> key, result |-> Miss]
    /\ resp' = NoResp
    /\ UNCHANGED <<now, ttl, refreshWindow, droppedUpdates, persistCh, closed, mgrVars>>
    /\ UNCHANGED <<ratio, store, writer, batch, stopClosed, clockOn, sweepOn, cpc, roDB, debt>>
    /\ UNCHANGED sideVars

\* sendToPersist: if atomic.LoadInt32(&c.closed) == 1 { droppedUpdates++; return }
SendCheck(c) ==
    /\ ~crashed
    /\ spc[c] = "check"
    /\ IF closed = 1
       THEN /\ droppedUpdates' = addDropped(droppedUpdates)
            /\ spc' = [spc EXCEPT ![c] = "idle"]
            /\ sop' = [sop EXCEPT ![c] = NoOp]
       ELSE /\ droppedUpdates' = droppedUpdates
            /\ spc' = [spc EXCEPT ![c] = "send"]
            /\ sop' = sop
    /\ resp' = NoResp /\ call' = NoCall
    /\ UNCHANGED <<now, ttl, refreshWindow, items, count, persistCh, closed, mgrVars, nops>>
    /\ UNCHANGED <<ratio, store, writer, batch, stopClosed, clockOn, sweepOn, cpc, roDB, debt>>
    /\ UNCHANGED sideVars

\* a channel that always has room
persistChFullNever(ch) == FALSE

\* the send case of the select is not ready: the buffer of persistCh is full
persistChFull(ch) == Len(ch) >= PersistChCap

\* sendToPersist: select { case c.persistCh <- op: default: droppedUpdates++ }
SendTry(c) ==
    /\ ~crashed
    /\ spc[c] = "send"
    /\ IF ~persistChFull(persistCh)
       THEN persistCh' = Append(persistCh, sop[c]) /\ droppedUpdates' = droppedUpdates
       ELSE persistCh' = persistCh /\ droppedUpdates' = addDropped(droppedUpdates)
    /\ spc' = [spc EXCEPT ![c] = "idle"]
    /\ sop' = [sop EXCEPT ![c] = NoOp]
    /\ resp' = NoResp /\ call' = NoCall
    /\ UNCHANGED <<now, ttl, refreshWindow, items, count, closed, mgrVars, nops>>
    /\ UNCHANGED <<ratio, store, writer, batch, stopClosed, clockOn, sweepOn, cpc, roDB, debt>>
    /\ UNCHANGED sideVars

\* Close: atomic.StoreInt32(&c.closed, 1)
CloseStore(c) ==
    /\ ~crashed
    /\ cpc[c] = "idle"
    /\ closed' = 1
    /\ debt' = IF closed = 0 THEN Len(persistCh) + Len(batch) ELSE debt
    /\ cpc' = [cpc EXCEPT ![c] = "close"]
    /\ resp' = NoResp /\ call' = NoCall
    /\ UNCHANGED <<now, ttl, refreshWindow, items, count, droppedUpdates, persistCh, mgrVars, nops>>
    /\ UNCHANGED <<ratio, store, writer, batch, stopClosed, clockOn, sweepOn, spc, sop, roDB>>
    /\ UNCHANGED sideVars

\* Close: close(c.stop); closing a closed channel panics, and nothing recovers
CloseStop(c) ==
    /\ ~crashed
    /\ cpc[c] = "close"
    /\ IF stopClosed
       THEN /\ cpc' = [cpc EXCEPT ![c] = "panicked"]
            /\ crashed' = TRUE
            /\ stopClosed' = stopClosed
       ELSE /\ cpc' = [cpc EXCEPT ![c] = "wait"]
            /\ crashed' = FALSE
            /\ stopClosed' = TRUE
    /\ resp' = NoResp /\ call' = NoCall
    /\ UNCHANGED <<cacheVars, nops>>
    /\ UNCHANGED <<queue, inflight, hpc, hraw, wpc, wraw, winfo, owed>>
    /\ UNCHANGED <<ratio, store, writer, batch, clockOn, sweepOn, spc, sop, roDB, debt>>
    /\ UNCHANGED sideVars

\* a wait that only a writer that ran to its return ends
writerExitedAfterRun(w) == w = "done"

\* the writer goroutine does not hold the WaitGroup: StartPersistence was not
\* called, or the goroutine returned (deferred wg.Done), on failure or on stop
writerExited(w) == w \in {"none", "failed", "done"}

\* Close: c.wg.Wait() returns when the tickers and the writer have returned
CloseWait(c) ==
    /\ ~crashed
    /\ cpc[c] = "wait"
    /\ ~clockOn /\ ~sweepOn /\ writerExited(writer)
    /\ cpc' = [cpc EXCEPT ![c] = "ro"]
    /\ resp' = NoResp /\ call' = NoCall
    /\ UNCHANGED <<cacheVars, mgrVars, nops>>
    /\ UNCHANGED <<ratio, store, writer, batch, stopClosed, clockOn, sweepOn, spc, sop, roDB, debt>>
    /\ UNCHANGED sideVars

\* Close: the read-only handle is closed and set to nil; Close returns
CloseRO(c) ==
    /\ ~crashed
    /\ cpc[c] = "ro"
    /\ roDB' = FALSE
    /\ cpc' = [cpc EXCEPT ![c] = "returned"]
    /\ resp' = NoResp /\ call' = NoCall
    /\ UNCHANGED <<cacheVars, mgrVars, nops>>
    /\ UNCHANGED <<ratio, store, writer, batch, stopClosed, clockOn, sweepOn, spc, sop, debt>>
    /\ UNCHANGED sideVars

\* the steps of the pipeline with the given callers of Set and Delete, the
\* given callers of Close and the given keys
PersistStep(callers, closers, keys) ==
    \/ \E ro \in BOOLEAN : StartPersistence(ro)
    \/ \E ok \in BOOLEAN : WriterOpen(ok)
    \/ WriterRecv
    \/ WriterFlush
    \/ \E t \in WallTimes : WriterClean(t)
    \/ WriterStop
    \/ ClockStop
    \/ SweepStop
    \/ \E c \in callers, k \in keys, v \in PersistValues, victim \in Victims :
           CallSet(c, k, v, victim)
    \/ \E c \in callers, k \in keys : CallDelete(c, k)
    \/ \E c \in callers : SendCheck(c)
    \/ \E c \in callers : SendTry(c)
    \/ \E c \in closers : CloseStore(c)
    \/ \E c \in closers : CloseStop(c)
    \/ \E c \in closers : CloseWait(c)
    \/ \E c \in closers : CloseRO(c)

NextPersist == PersistStep(Callers, Closers, PersistKeys)

SpecPersist == InitPersist /\ [][NextPersist]_vars

-----------------------------------------------------------------------------
(* Shutdown under fair scheduling: one goroutine writes, one calls Close,    *)
(* the clock ticks and the sweep runs.  A goroutine that can take a step     *)
(* takes it: the select of a background goroutine whose stop case is ready   *)
(* chooses it sooner or later, the writer's sql.Open and initDB return, and  *)
(* a caller of Close goes on.  Nothing makes anybody call Close.             *)

\* the key written in this specification
ShutdownKeys == {"1.2.3"}

NextShutdown ==
    \/ PersistStep({1}, {1}, ShutdownKeys)
    \/ Tick
    \/ Sweeps

CloseStep(c) == CloseStop(c) \/ CloseWait(c) \/ CloseRO(c)

FairShutdown ==
    /\ \A c \in Closers : WF_vars(CloseStep(c))
    /\ WF_vars(ClockStop)
    /\ WF_vars(SweepStop)
    /\ WF_vars(\E ok \in BOOLEAN : WriterOpen(ok))
    /\ WF_vars(WriterStop)

SpecShutdown == InitPersist /\ [][NextShutdown]_vars /\ FairShutdown

-----------------------------------------------------------------------------
(* The cache restored from the store an earlier run left behind, and then    *)
(* driven through its exported methods                                       *)

NextRestore ==
    \/ \E t \in WallTimes : LoadFromSQLite(t)
    \/ NextCache

SpecRestore == InitRestore /\ [][NextRestore]_vars

-----------------------------------------------------------------------------
(* The resolver under fair scheduling: a handler goroutine that has started  *)
(* on a request runs to its response, a worker goroutine takes what is       *)
(* queued and runs to the end of its closure, and a call of Fetch returns    *)
(* (its context carries the deadline ApiRequestTimeout).  The configuration  *)
(* is the one with a refresh window, and the requests are for two addresses  *)
(* whose cache keys share a shard.                                           *)

LiveRawIPs == { "1.2.3.4", "3.2.1.1" }
LiveKeys == { KeyOf[raw] : raw \in LiveRawIPs }

InitLive == Init /\ refreshWindow > 0

NextLive == Step(LiveRawIPs)

HandlerStep(h) == HandleTryAdd(h) \/ HandleSend(h) \/ HandleUndo(h)

FetchReturns(w) ==
    \/ \E pi \in ProviderInfos : WorkerFetchOk(w, pi)
    \/ WorkerFetchErr(w)
    \/ WorkerFetchPanic(w)

WorkerStep(w) ==
    \/ WorkerDequeue(w)
    \/ WorkerCheck(w)
    \/ FetchReturns(w)
    \/ \E victim \in Victims : WorkerSet(w, victim)
    \/ WorkerRelease(w)

Fairness ==
    /\ \A h \in Handlers : WF_vars(HandlerStep(h))
    /\ \A w \in Workers : WF_vars(WorkerStep(w))

SpecLive == InitLive /\ [][NextLive]_vars /\ Fairness

-----------------------------------------------------------------------------
(* Vocabulary of the properties *)

TypeOK ==
    /\ now \in 0..MaxNow
    /\ DOMAIN items \subseteq Keys
    /\ Len(queue) <= QueueSize
    /\ inflight \subseteq Keys

\* the /24 network whose addresses have cache key k
NetOfKey == [k \in Keys |-> CHOOSE n \in { NetOf[r] : r \in ValidRaws } :
                                \E r \in ValidRaws : KeyOf[r] = k /\ NetOf[r] = n]

\* k is bound and not expired at the cached clock
Live(k) == k \in DOMAIN items /\ now < items[k].exp

\* k is bound, not expired, and in its refresh window
RefreshHit(k) == Live(k) /\ refreshWindow > 0 /\ now >= items[k].refreshAt

\* k is bound, not expired, and not in its refresh window
FreshHit(k) == Live(k) /\ ~(refreshWindow > 0 /\ now >= items[k].refreshAt)

\* the positions of the queue that hold an item whose cache key is k
QueuedFor(k) == { i \in 1..Len(queue) : KeyOf[queue[i]] = k }

\* the workers that have dequeued an item with cache key k and not yet released it
ProcessingFor(k) ==
    { w \in Workers : wpc[w] \in {"check", "fetch", "set", "release", "unwind"}
                      /\ KeyOf[wraw[w]] = k }

\* the handlers whose TryAdd of k succeeded and that have neither handed the
\* item to the queue nor undone the TryAdd
HoldingFor(k) ==
    { h \in Handlers : hpc[h] \in {"send_miss", "send_refresh", "undo_miss", "undo_refresh"}
                       /\ KeyOf[hraw[h]] = k }

\* the step is handler h leaving position pc
Leaves(h, pc) == hpc[h] = pc /\ hpc'[h] # pc

\* the step is the arrival of a request for raw: handler h validates it and
\* looks its key up
Arrives(h, raw) ==
    /\ hpc[h] = "idle"
    /\ nops' = nops + 1
    /\ \/ resp'.raw = raw /\ hpc' = hpc
       \/ hpc'[h] # "idle" /\ hraw'[h] = raw

-----------------------------------------------------------------------------
(* C1 - C10 *)

\* C1 (single-flight): for every cache key, the number of queue items with
\* that key plus the number of workers processing an item with that key is
\* at most one.
C1_SingleFlight ==
    \A k \in Keys : Cardinality(QueuedFor(k)) + Cardinality(ProcessingFor(k)) <= 1

\* a second request for a key arrives while a worker is fetching for that key
C1_Witness ==
    \E w \in Workers, h \in Handlers :
        /\ wpc[w] = "fetch"
        /\ hpc[h] = "tryadd_miss"
        /\ KeyOf[hraw[h]] = KeyOf[wraw[w]]

\* C2 (inflight balance): every successful TryAdd on a key is followed by
\* exactly one Delete of it.  At every moment a key is inflight exactly when
\* TryAdd successes exceed Deletes by one, and then exactly one party (the
\* handler that added it, the queue, or one worker) holds the item and owes
\* the Delete; and, while the process lives, a key that is inflight
\* eventually is not.
C2_InflightBalance ==
    /\ [](\A k \in Keys :
            /\ owed[k] = (IF k \in inflight THEN 1 ELSE 0)
            /\ Cardinality(HoldingFor(k)) + Cardinality(QueuedFor(k))
                 + Cardinality(ProcessingFor(k)) = owed[k])
    /\ \A k \in LiveKeys : (k \in inflight) ~> (k \notin inflight \/ crashed)

\* a worker's Fetch panicked and the deferred Delete still emptied the set
C2_Witness == crashed /\ inflight = {} /\ \A k \in Keys : owed[k] = 0

\* C3 (upstream collapse): with a positive ttl and starting from an empty
\* cache, requests for addresses of one /24 network cause one Fetch while
\* the entry stays fresh: a worker starts a Fetch for an address only if no
\* fresh entry exists for the address's /24 network and no other worker has
\* a Fetch for that network under way.
C3_OneFetchPerNet ==
    [][\A w \in Workers :
          (wpc[w] = "check" /\ wpc'[w] = "fetch") =>
              /\ ~\E k \in Keys : NetOfKey[k] = NetOf[wraw[w]] /\ FreshHit(k)
              /\ ~\E v \in Workers \ {w} :
                     wpc[v] \in {"fetch", "set"} /\ NetOf[wraw[v]] = NetOf[wraw[w]]]_vars

\* the same statement per cache key instead of per /24 network
OneFetchPerKey ==
    [][\A w \in Workers :
          (wpc[w] = "check" /\ wpc'[w] = "fetch") =>
              /\ ~FreshHit(KeyOf[wraw[w]])
              /\ ~\E v \in Workers \ {w} :
                     wpc[v] \in {"fetch", "set"} /\ KeyOf[wraw[v]] = KeyOf[wraw[w]]]_vars

\* the step is a call of Set, SetWithTime or Delete on key k
WritesKey(k) == call'.op \in {"Set", "SetWithTime", "Delete"} /\ call'.key = k

\* the step is a Set or SetWithTime of a key that is not bound, into the
\* shard of k, which already holds shardCap keys
WritesNewKeyIntoFullShardOf(k) ==
    /\ call'.op \in {"Set", "SetWithTime"}
    /\ call'.key \notin DOMAIN items
    /\ ShardOf[call'.key] = ShardOf[k]
    /\ Cardinality({ j \in DOMAIN items : ShardOf[j] = ShardOf[k] }) >= shardCap

\* after the step k is bound as before, and if the step is Get(k) it returned
\* the bound value and found = true
StillServed(k) ==
    /\ k \in DOMAIN items'
    /\ items'[k] = items[k]
    /\ (call'.op = "Get" /\ call'.key = k) =>
           (call'.result.found /\ call'.result.value = items[k].value)

\* C4 as stated: once k is bound and not expired, it stays bound to its
\* value, and Get(k) returns (value, true), across every cache operation and
\* background step, until the clock reaches exp or k itself is written or
\* deleted.
C4_AsStated ==
    [][\A k \in Keys :
          (Live(k) /\ now' < items[k].exp /\ ~WritesKey(k)) => StillServed(k)]_vars

\* C4 (amended): the same, except across a write of a new key into the full
\* shard of k, which may evict k.
C4_UntilEvicted ==
    [][\A k \in Keys :
          (Live(k) /\ now' < items[k].exp /\ ~WritesKey(k)
             /\ ~WritesNewKeyIntoFullShardOf(k)) => StillServed(k)]_vars

\* a live binding has just survived a Set of another key
C4_Witness ==
    /\ call.op = "Set"
    /\ \E k \in Keys \ {call.key} : Live(k)

\* C5 (overload): on a miss whose TryAdd succeeded, a send to a full queue
\* does not happen and leaves the queue as it is; the handler then removes
\* the key from the inflight set and answers 429; a handler at the send is
\* never blocked; the queue never holds more than QueueSize items.
C5_Overload ==
    /\ [][\A h \in Handlers :
            /\ (Leaves(h, "send_miss") /\ Len(queue) >= QueueSize) =>
                   (hpc'[h] = "undo_miss" /\ queue' = queue /\ resp' = NoResp)
            /\ Leaves(h, "undo_miss") =>
                   /\ resp' = [raw |-> hraw[h], code |-> 429, body |-> ""]
                   /\ inflight' = inflight \ {KeyOf[hraw[h]]}
                   /\ queue' = queue
                   /\ hpc'[h] = "idle"]_vars
    /\ [](Len(queue) <= QueueSize)
    /\ [](\A h \in Handlers :
            (hpc[h] \in {"send_miss", "undo_miss"} /\ ~crashed) => ENABLED HandlerStep(h))

\* a request has just been answered 429, its key is not inflight, the queue is full
C5_Witness ==
    /\ resp.code = 429
    /\ KeyOf[resp.raw] \notin inflight
    /\ Len(queue) = QueueSize

\* C6 (coalesced): on a miss whose key is already inflight the handler
\* answers 202 and changes neither the queue, the inflight set nor the cache.
C6_Coalesced ==
    [][\A h \in Handlers :
          (Leaves(h, "tryadd_miss") /\ KeyOf[hraw[h]] \in inflight) =>
              /\ resp' = [raw |-> hraw[h], code |-> 202, body |-> ""]
              /\ hpc'[h] = "idle"
              /\ queue' = queue
              /\ inflight' = inflight
              /\ items' = items]_vars

\* a request has just been answered 202 without being queued, while a worker
\* fetches for its key
C6_Witness ==
    /\ resp.code = 202
    /\ queue = <<>>
    /\ \E w \in Workers : wpc[w] = "fetch" /\ KeyOf[wraw[w]] = KeyOf[resp.raw]

\* what the provider returns for an address of Guangdong, China Telecom
Recognized == [Province |-> "[24191][19996][30465]", ISP |-> "[20013][22269][30005][20449]"]

C8_FreshHit ==
    [][\A h \in Handlers : \A raw \in ValidRaws :
          (Arrives(h, raw) /\ FreshHit(KeyOf[raw])) =>
              /\ resp' = [raw |-> raw, code |-> 200, body |-> items[KeyOf[raw]].value]
              /\ inflight' = inflight
              /\ queue' = queue
              /\ items' = items
              /\ hpc' = hpc]_vars

\* a request has just been answered 200 from a fresh entry
C8_Witness ==
    /\ resp.code = 200
    /\ FreshHit(KeyOf[resp.raw])
    /\ resp.body = items[KeyOf[resp.raw]].value

\* C9 (refresh hit): a request whose key is bound, not expired and in its
\* refresh window is answered 200 with the cached value at once.  The
\* handler then enqueues its item only if TryAdd succeeds and the queue has
\* room, and then exactly once; if the key is inflight it does nothing; if
\* the queue is full it removes the key from the inflight set.  None of
\* these steps writes another response, changes the cache, or can block.
C9_RefreshHit ==
    /\ [][\A h \in Handlers :
            /\ \A raw \in ValidRaws :
                 (Arrives(h, raw) /\ RefreshHit(KeyOf[raw])) =>
                     /\ resp' = [raw |-> raw, code |-> 200, body |-> items[KeyOf[raw]].value]
                     /\ hpc'[h] = "tryadd_refresh"
                     /\ inflight' = inflight /\ queue' = queue /\ items' = items
            /\ Leaves(h, "tryadd_refresh") =>
                 /\ resp' = NoResp /\ items' = items /\ queue' = queue
                 /\ IF KeyOf[hraw[h]] \in inflight
                    THEN hpc'[h] = "idle" /\ inflight' = inflight
                    ELSE hpc'[h] = "send_refresh"
                         /\ inflight' = inflight \cup {KeyOf[hraw[h]]}
            /\ Leaves(h, "send_refresh") =>
                 /\ resp' = NoResp /\ items' = items /\ inflight' = inflight
                 /\ IF Len(queue) < QueueSize
                    THEN hpc'[h] = "idle" /\ queue' = Append(queue, hraw[h])
                    ELSE hpc'[h] = "undo_refresh" /\ queue' = queue
            /\ Leaves(h, "undo_refresh") =>
                 /\ resp' = NoResp /\ items' = items /\ queue' = queue
                 /\ hpc'[h] = "idle"
                 /\ inflight' = inflight \ {KeyOf[hraw[h]]}]_vars
    /\ [](\A h \in Handlers :
            (hpc[h] \in {"tryadd_refresh", "send_refresh", "undo_refresh"} /\ ~crashed)
                => ENABLED HandlerStep(h))

\* a refresh found the queue full: the handler is about to undo its TryAdd
\* and the entry is still served
C9_Witness ==
    \E h \in Handlers :
        /\ hpc[h] = "undo_refresh"
        /\ Len(queue) = QueueSize
        /\ Live(KeyOf[hraw[h]])

\* C10: Get(k) hits exactly when k is bound and the cached clock is below
\* the entry's exp; otherwise, and so for an expired entry that no sweep has
\* removed yet, it returns ('', false, false, 0).
C10_GetHitIffLive ==
    [][call'.op = "Get" =>
          /\ call'.result.found <=>
                 (call'.key \in DOMAIN items /\ now < items[call'.key].exp)
          /\ call'.result.found => call'.result.value = items[call'.key].value
          /\ ~call'.result.found =>
                 call'.result = [value |-> "", found |-> FALSE,
                                 needsRefresh |-> FALSE, remaining |-> 0]]_vars

\* Get has just missed on a key that is still bound to an expired entry
C10_Witness ==
    /\ call.op = "Get"
    /\ ~call.result.found
    /\ call.key \in DOMAIN items
    /\ now >= items[call.key].exp

-----------------------------------------------------------------------------
(* C11 - C20 *)

\* the step is a call of Get on k, which is bound and not expired
GetsLive(k) == call'.op = "Get" /\ call'.key = k /\ k \in DOMAIN items /\ now < items[k].exp

\* C11 (needs_refresh): a Get of a live entry reports needs_refresh exactly
\* when the refresh window is positive and the cached clock has reached the
\* entry's refresh_at; and in a cache built with a ratio of 0, below 0, or of
\* 1 (100 percent) and above, no Get ever reports needs_refresh.
C11_NeedsRefresh ==
    [][\A k \in Keys :
          /\ GetsLive(k) =>
                (call'.result.needsRefresh <=> (refreshWindow > 0 /\ now >= items[k].refreshAt))
          /\ (call'.op = "Get" /\ (ratio <= 0 \/ ratio >= 100)) =>
                ~call'.result.needsRefresh]_vars

\* in a cache built with ratio 1, a Get hits an entry and reports no refresh
C11_Witness ==
    /\ ratio >= 100
    /\ call.op = "Get" /\ call.result.found /\ ~call.result.needsRefresh
    /\ call.key \in DOMAIN items /\ items[call.key].exp = now + 1

\* C12 (Count): whenever no cache operation is in progress, the counter
\* Count() reads equals the number of bindings held in the shard maps.
C12_CountIsBindings == count = Cardinality(DOMAIN items)

\* the only write so far was a Set, and a sweep has removed its entry after expiry
C12_Witness ==
    /\ nops = 1 /\ ttl > 0
    /\ Len(persistCh) = 1 /\ ~Head(persistCh).IsDelete
    /\ items = EmptyItems /\ count = 0

\* the keys bound in the shard of k
BoundInShardOf(its, k) == { j \in DOMAIN its : ShardOf[j] = ShardOf[k] }

Written(k) ==
    \/ call'.op = "Set" /\ call'.key = k
    \/ call'.op = "Load" /\ k \in DOMAIN items'

\* C14 (entry times): an entry written by Set, or restored by LoadFromSQLite
\* through SetWithTime, has refresh_at <= exp and is not expired at the
\* cached clock when it is written.
C14_FreshWhenWritten ==
    [][\A k \in Keys :
          Written(k) => (items'[k].refreshAt <= items'[k].exp /\ items'[k].exp > now)]_vars

\* the same statement for the caches built with a positive ttl
FreshWhenWrittenPositiveTTL ==
    [][\A k \in Keys :
          (ttl > 0 /\ Written(k)) =>
              (items'[k].refreshAt <= items'[k].exp /\ items'[k].exp > now)]_vars

\* C15 (Close is idempotent): a second call of Close, after or during the
\* first, completes normally: no call of Close panics.
C15_CloseIdempotent == \A c \in Closers : cpc[c] # "panicked"

\* the step is caller c leaving sendToPersist
Sent(c) == spc[c] \in {"check", "send"} /\ spc'[c] = "idle"

\* C16 (closed means refused): once the closed flag is set no op is added to
\* the persistence channel, and every sendToPersist that ends afterwards has
\* refused its op and incremented dropped_updates.
C16_NoSendAfterClosed ==
    [][closed = 1 =>
          /\ Len(persistCh') <= Len(persistCh)
          /\ \A c \in Callers : Sent(c) => droppedUpdates' = droppedUpdates + 1]_vars

\* the tickers and the writer loop have exited
AllExited == ~clockOn /\ ~sweepOn /\ writer \in {"none", "failed", "done"}

\* C17 (Close terminates): once Close is called, the clock ticker, the sweep
\* and the writer loop each exit and Close returns, whatever the state it is
\* called in.
C17_CloseTerminates ==
    /\ \A c \in Closers : (cpc[c] # "idle") ~> (cpc[c] = "returned")
    /\ (closed = 1) ~> AllExited
    /\ [](\A c \in Closers : cpc[c] \in {"ro", "returned"} => AllExited)

\* Close has returned although StartPersistence's writer failed to open the store
C17_Witness == cpc[1] = "returned" /\ writer = "failed" /\ nops > 0

\* C18 (clean shutdown loses nothing): with the writer running and no flush
\* failing, every op accepted into the channel before Close was called is
\* committed to the store when Close has returned.
C18_NothingLost ==
    (writer = "done" /\ \E c \in Closers : cpc[c] = "returned") => debt = 0

\* the smaller of two numbers
Min(a, b) == IF a <= b THEN a ELSE b

\* C19 (restore round trip): LoadFromSQLite, reading the time t, binds rows
\* of the store with exp > t and nothing else, each with the row's value, exp
\* and refresh_at; of the rows that fall into one shard it binds all, or
\* shardCap of them if there are more; Count follows.  A Get of a key bound
\* as its row says hits, with the row's value, exactly while the cached
\* clock is before the row's exp.
C19_RestoreRoundTrip ==
    [][/\ call'.op = "Load" =>
            \E t \in WallTimes :
               LET rows == { k \in DOMAIN store : store[k].exp > t }
               IN  /\ t >= now
                   /\ DOMAIN items' \subseteq rows
                   /\ \A k \in DOMAIN items' : items'[k] = store[k]
                   /\ \A k \in rows :
                         Cardinality(BoundInShardOf(items', k))
                           = Min(Cardinality({ j \in rows : ShardOf[j] = ShardOf[k] }), shardCap)
                   /\ count' = Cardinality(DOMAIN items')
       /\ \A k \in Keys :
             (call'.op = "Get" /\ call'.key = k /\ k \in DOMAIN items /\ k \in DOMAIN store
                /\ items[k] = store[k]) =>
                   /\ call'.result.found <=> now < store[k].exp
                   /\ call'.result.found => call'.result.value = store[k].value]_vars

\* both rows were selected; they share a shard, and the row loaded second
\* has taken the place of the first
C19_Witness ==
    /\ call.op = "Load"
    /\ DOMAIN store = {"1.2.3", "3.2.1"}
    /\ DOMAIN items = {"1.2.3"} /\ items["1.2.3"] = store["1.2.3"]
    /\ count = 1

\* C20 (dropped_updates): the counter never decreases; a sendToPersist that
\* refuses its op, because the cache is closed or because the channel is
\* full, adds exactly 1 and leaves the channel alone; one that accepts its
\* op appends it and leaves the counter alone; nothing else changes it.
C20_DroppedCount ==
    [][/\ droppedUpdates' >= droppedUpdates
       /\ \A c \in Callers :
             /\ (spc[c] = "check" /\ spc'[c] = "idle") =>
                   (closed = 1 /\ droppedUpdates' = droppedUpdates + 1 /\ persistCh' = persistCh)
             /\ (spc[c] = "send" /\ spc'[c] = "idle") =>
                   IF Len(persistCh) >= PersistChCap
                   THEN droppedUpdates' = droppedUpdates + 1 /\ persistCh' = persistCh
                   ELSE droppedUpdates' = droppedUpdates /\ persistCh' = Append(persistCh, sop[c])
       /\ droppedUpdates' # droppedUpdates => \E c \in Callers : Sent(c)]_vars

\* one op was refused because the channel was full and one because the cache
\* was closed
C20_Witness ==
    /\ droppedUpdates = 2 /\ closed = 1 /\ nops = 3
    /\ Len(persistCh) = 1 /\ writer = "none"
    /\ \A c \in Callers : spc[c] = "idle"

-----------------------------------------------------------------------------
(* The pipeline with flushes that fail: db.Begin, tx.Prepare or tx.Commit    *)
(* returns an error.  One goroutine writes one key while the clock ticks.    *)

\* a rollback that leaves the first op of the batch behind
rolledBackPartly(rows, b) == applyOp(rows, Head(b))

\* flushBatch returning an error: no transaction was begun, or it was rolled
\* back, or its commit failed: the rows are those before the flush
rolledBack(rows, b) == rows

\* flush() with flushBatch failing, in the select case that called it: the
\* error is logged and batch = batch[:0]
FlushFail(case) ==
    /\ ~crashed
    /\ writer = "run"
    /\ \/ /\ case = "recv"
          /\ persistCh # <<>>
          /\ Len(batch) + 1 >= persistBatchSize
          /\ persistCh' = Tail(persistCh)
          /\ store' = rolledBack(store, Append(batch, Head(persistCh)))
          /\ writer' = writer
       \/ /\ case = "tick"
          /\ batch # <<>>
          /\ persistCh' = persistCh
          /\ store' = rolledBack(store, batch)
          /\ writer' = writer
       \/ /\ case = "stop"
          /\ stopClosed
          /\ batch # <<>>
          /\ persistCh' = persistCh
          /\ store' = rolledBack(store, batch)
          /\ writer' = "done"
    /\ batch' = <<>>
    /\ resp' = NoResp
    /\ call' = [op |-> "FlushFailed", key |-> case, result |-> Miss]
    /\ UNCHANGED <<now, ttl, refreshWindow, items, count, droppedUpdates, closed>>
    /\ UNCHANGED <<mgrVars, nops>>
    /\ UNCHANGED <<ratio, stopClosed, clockOn, sweepOn, cpc, spc, sop, roDB, debt>>
    /\ UNCHANGED sideVars

FlushCases == {"recv", "tick", "stop"}

NextFlush ==
    \/ PersistStep({1}, {1}, ShutdownKeys)
    \/ \E case \in FlushCases : FlushFail(case)
    \/ Tick

SpecFlush == InitPersist /\ [][NextFlush]_vars

-----------------------------------------------------------------------------
(* The read-only connection: goroutines call GetAllItems while              *)
(* StartPersistence is called and while one goroutine calls Close.          *)

\* the handle in c.roDB: connections are numbered as sql.Open returns them,
\* 0 is nil
roHandle == IF roDB THEN roOpens ELSE 0

\* the result of GetAllItems that is an error with the given text
Failed(text) == [op |-> "GetAllItems", key |-> text, result |-> Miss]

\* a slow path that opens a connection whatever c.roDB holds
mustOpenUnchecked(db) == TRUE

\* ensureReadOnlyDB, under the write lock: if c.roDB != nil { return nil }
mustOpen(db) == ~db

\* GetAllItems is called; ensureReadOnlyDB: the closed flag is loaded
EnsureClosedCheck(r) ==
    /\ ~crashed
    /\ rpc[r] = "idle"
    /\ IF closed = 1
       THEN rpc' = rpc /\ call' = Failed("cache is closed")
       ELSE rpc' = [rpc EXCEPT ![r] = "fast"] /\ call' = NoCall
    /\ rdb' = [rdb EXCEPT ![r] = 0]
    /\ resp' = NoResp
    /\ UNCHANGED <<cacheVars, mgrVars, lifeVars, nops, mon, norm, mpc, dbPath, roOpens>>

\* ensureReadOnlyDB: under the read lock, c.roDB is looked at and c.dbPath
\* is read; then the path is tested
EnsureFastCheck(r) ==
    /\ ~crashed
    /\ rpc[r] = "fast"
    /\ IF roDB
       THEN rpc' = [rpc EXCEPT ![r] = "read"] /\ call' = NoCall
       ELSE IF ~dbPath
            THEN rpc' = [rpc EXCEPT ![r] = "idle"] /\ call' = Failed("db path not set")
            ELSE rpc' = [rpc EXCEPT ![r] = "slow"] /\ call' = NoCall
    /\ resp' = NoResp
    /\ UNCHANGED <<cacheVars, mgrVars, lifeVars, nops, mon, norm, mpc, dbPath, roOpens, rdb>>

\* ensureReadOnlyDB: under the write lock, the second look at c.roDB, and
\* sql.Open if it is still nil; on success c.roDB = db
EnsureSlowInit(r, ok) ==
    /\ ~crashed
    /\ rpc[r] = "slow"
    /\ resp' = NoResp
    /\ IF ~mustOpen(roDB)
       THEN /\ ok
            /\ rpc' = [rpc EXCEPT ![r] = "read"] /\ call' = NoCall
            /\ UNCHANGED <<roDB, roOpens>>
       ELSE IF ok
            THEN /\ roDB' = TRUE
                 /\ roOpens' = roOpens + 1
                 /\ rpc' = [rpc EXCEPT ![r] = "read"] /\ call' = NoCall
            ELSE /\ rpc' = [rpc EXCEPT ![r] = "idle"] /\ call' = Failed("open failed")
                 /\ UNCHANGED <<roDB, roOpens>>
    /\ UNCHANGED <<cacheVars, mgrVars, nops, mon, norm, mpc, dbPath, rdb>>
    /\ UNCHANGED <<ratio, store, writer, batch, stopClosed, clockOn, sweepOn, cpc, spc, sop, debt>>

\* GetAllItemsContext: db := c.roDB under the read lock; nil is an error
GetAllItemsRead(r) ==
    /\ ~crashed
    /\ rpc[r] = "read"
    /\ IF roDB
       THEN /\ rpc' = [rpc EXCEPT ![r] = "query"]
            /\ rdb' = [rdb EXCEPT ![r] = roHandle]
            /\ call' = NoCall
       ELSE /\ rpc' = [rpc EXCEPT ![r] = "idle"]
            /\ rdb' = rdb
            /\ call' = Failed("db not initialized")
    /\ resp' = NoResp
    /\ UNCHANGED <<cacheVars, mgrVars, lifeVars, nops, mon, norm, mpc, dbPath, roOpens>>

\* GetAllItemsContext: the query on the handle taken; a handle that Close
\* has closed meanwhile gives an error
GetAllItemsQuery(r) ==
    /\ ~crashed
    /\ rpc[r] = "query"
    /\ rpc' = [rpc EXCEPT ![r] = "idle"]
    /\ call' = IF rdb[r] = roHandle
               THEN [op |-> "GetAllItems", key |-> "", result |-> Miss]
               ELSE Failed("sql: database is closed")
    /\ resp' = NoResp
    /\ UNCHANGED <<cacheVars, mgrVars, lifeVars, nops, mon, norm, mpc, dbPath, roOpens, rdb>>

GetAllItemsStep(r) ==
    \/ EnsureClosedCheck(r)
    \/ EnsureFastCheck(r)
    \/ \E ok \in BOOLEAN : EnsureSlowInit(r, ok)
    \/ GetAllItemsRead(r)
    \/ GetAllItemsQuery(r)

NextReadOnly ==
    \/ \E r \in Readers : GetAllItemsStep(r)
    \/ \E ro \in BOOLEAN : StartPersistence(ro)
    \/ \E ok \in BOOLEAN : WriterOpen(ok)
    \/ WriterStop
    \/ ClockStop
    \/ SweepStop
    \/ CloseStore(1)
    \/ CloseStep(1)

SpecReadOnly == InitPersist /\ [][NextReadOnly]_vars

-----------------------------------------------------------------------------
(* Two goroutines call Set and Delete on one key while the writer runs and   *)
(* the clock ticks.  Nobody calls Close, nothing is swept, and with one key  *)
(* nothing is evicted: a binding changes only by the calls on its key.       *)

NextLastWrite ==
    \/ \E ro \in BOOLEAN : StartPersistence(ro)
    \/ \E ok \in BOOLEAN : WriterOpen(ok)
    \/ WriterRecv
    \/ WriterFlush
    \/ \E c \in Callers, k \in ShutdownKeys, v \in PersistValues, victim \in Victims :
           CallSet(c, k, v, victim)
    \/ \E c \in Callers, k \in ShutdownKeys : CallDelete(c, k)
    \/ \E c \in Callers : SendCheck(c)
    \/ \E c \in Callers : SendTry(c)
    \/ Tick

SpecLastWrite == InitPersist /\ [][NextLastWrite]_vars

-----------------------------------------------------------------------------
(* Manager.Stop, as main calls it after the two HTTP servers were told to    *)
(* shut down.  Server.Shutdown gives up after 5 s and leaves the connections *)
(* that are still active alone, so handlers may still be at work, or start,  *)
(* while Stop runs.                                                          *)

\* Stop: close(m.queue)
StopCloseQueue ==
    /\ ~crashed
    /\ mpc = "run"
    /\ mpc' = "wait"
    /\ resp' = NoResp /\ call' = NoCall
    /\ UNCHANGED <<cacheVars, mgrVars, lifeVars, nops, mon, norm, roVars>>

\* worker: the range over the closed and empty queue ends; deferred wg.Done()
WorkerExit(w) ==
    /\ ~crashed
    /\ wpc[w] = "idle"
    /\ queueClosed(mpc) /\ queue = <<>>
    /\ wpc' = [wpc EXCEPT ![w] = "exited"]
    /\ resp' = NoResp /\ call' = NoCall
    /\ UNCHANGED <<cacheVars, lifeVars, nops, sideVars>>
    /\ UNCHANGED <<queue, inflight, hpc, hraw, wraw, winfo, crashed, owed>>

\* Stop: m.wg.Wait() returns; m.cache.Close() is next
StopWait ==
    /\ ~crashed
    /\ mpc = "wait"
    /\ \A w \in Workers : wpc[w] = "exited"
    /\ mpc' = "close"
    /\ resp' = NoResp /\ call' = NoCall
    /\ UNCHANGED <<cacheVars, mgrVars, lifeVars, nops, mon, norm, roVars>>

\* Stop: m.cache.Close(), step by step
StopCacheClose ==
    /\ mpc = "close"
    /\ (CloseStore(1) \/ CloseStep(1))

NextStop ==
    \/ Step(LiveRawIPs)
    \/ StopCloseQueue
    \/ \E w \in Workers : WorkerExit(w)
    \/ StopWait
    \/ StopCacheClose
    \/ ClockStop
    \/ SweepStop

SpecStop == Init /\ [][NextStop]_vars

-----------------------------------------------------------------------------
(* The data plane with the request line in view: method and path *)

Methods == {"GET", "POST"}

\* paths: an IPv4 literal, an IPv4-mapped IPv6 literal, an IPv6 literal,
\* the empty path, favicon.ico and a malformed address
PlaneRawIPs == {"1.2.3.4", "::ffff:1.2.3.5", "::1", "", "favicon.ico", "1.2.3"}

NextDataPlane ==
    \/ \E h \in Handlers, method \in Methods, raw \in PlaneRawIPs : HandleUpdate(h, method, raw)
    \/ Serve

SpecDataPlane == Init /\ [][NextDataPlane]_vars

-----------------------------------------------------------------------------
(* The monitor.  The provider's Fetch reports each outcome to it, a failure  *)
(* by RecordFailure (request error, unreadable JSON, API code other than     *)
(* 200) and a success by RecordSuccess; GET /status on the monitor port      *)
(* reads it.  The three methods take the monitor's mutex, so each is a step. *)

\* calls of RecordSuccess and RecordFailure the model follows
MaxRecords == 6

\* Healthy: snap.ConsecutiveErr < 3
unhealthyAfter == 3

\* a health that tolerates one failure more
HealthyInclusive(consecutiveErr) == consecutiveErr <= unhealthyAfter

\* HandleStatus: Healthy: snap.ConsecutiveErr < 3
Healthy(consecutiveErr) == consecutiveErr < unhealthyAfter

\* Monitor.RecordSuccess
RecordSuccess ==
    /\ ~crashed
    /\ mon.TotalRequests < MaxRecords
    /\ mon' = [mon EXCEPT !.TotalRequests = @ + 1,
                          !.SuccessCount = @ + 1,
                          !.ConsecutiveErr = 0]
    /\ resp' = NoResp
    /\ call' = [op |-> "RecordSuccess", key |-> "", result |-> Miss]
    /\ UNCHANGED <<cacheVars, mgrVars, lifeVars, nops, norm, mpc, roVars>>

\* Monitor.RecordFailure(ip, errMsg)
RecordFailure(ip) ==
    /\ ~crashed
    /\ mon.TotalRequests < MaxRecords
    /\ mon' = [mon EXCEPT !.TotalRequests = @ + 1,
                          !.FailCount = @ + 1,
                          !.ConsecutiveErr = @ + 1]
    /\ resp' = NoResp
    /\ call' = [op |-> "RecordFailure", key |-> ip, result |-> Miss]
    /\ UNCHANGED <<cacheVars, mgrVars, lifeVars, nops, norm, mpc, roVars>>

\* Monitor.HandleStatus: the snapshot taken under the read lock, the health
\* computed from it, 500 when unhealthy and 200 otherwise; body is the value
\* of the JSON field "healthy"
HandleStatus ==
    /\ ~crashed
    /\ resp' = IF Healthy(mon.ConsecutiveErr)
               THEN [raw |-> "/status", code |-> 200, body |-> "true"]
               ELSE [raw |-> "/status", code |-> 500, body |-> "false"]
    /\ call' = NoCall
    /\ UNCHANGED <<cacheVars, mgrVars, lifeVars, nops, sideVars>>

NextMonitor ==
    \/ RecordSuccess
    \/ \E ip \in LiveRawIPs : RecordFailure(ip)
    \/ HandleStatus

SpecMonitor == Init /\ [][NextMonitor]_vars

-----------------------------------------------------------------------------
(* The normalizer on its own: Standardize and ToTag applied to a pair        *)
(* (province, isp), and then to the pair of codes that came out.             *)

\* the forms of a province the trie holds, and one it does not
ProvinceForms ==
    { cnMap[i][1] : i \in 1..Len(cnMap) } \cup { cnMap[i][2] : i \in 1..Len(cnMap) } \cup {"Mars"}

\* the keywords of the ISP rules, and a name none of them is part of
ISPForms == UNION { ispRules[r].Keywords : r \in 1..Len(ispRules) } \cup {"AOL"}

NormInputs ==
    { [Province |-> pr, ISP |-> sp] : pr \in ProvinceForms, sp \in ISPForms } \cup ProviderInfos

\* info := IPInfo{Province, ISP}; info.Standardize(); tag := info.ToTag()
Normalize ==
    /\ norm.step = 0
    /\ LET info == Standardize(NewIPInfo(norm.in))
       IN  norm' = [norm EXCEPT !.info = info, !.tag = ToTag(info), !.step = 1]
    /\ resp' = NoResp /\ call' = NoCall
    /\ UNCHANGED <<cacheVars, mgrVars, lifeVars, nops, mon, mpc, roVars>>

\* the same with the two codes of the first result as province and ISP
NormalizeAgain ==
    /\ norm.step = 1
    /\ norm' = [norm EXCEPT
                   !.again = TagOf([Province |-> norm.info.ProvinceCode,
                                    ISP |-> norm.info.ISPCode]),
                   !.step = 2]
    /\ resp' = NoResp /\ call' = NoCall
    /\ UNCHANGED <<cacheVars, mgrVars, lifeVars, nops, mon, mpc, roVars>>

InitNormalize == \E pi \in NormInputs : InitWith([NoNorm EXCEPT !.in = pi])

NextNormalize == Normalize \/ NormalizeAgain

SpecNormalize == InitNormalize /\ [][NextNormalize]_vars

-----------------------------------------------------------------------------
(* C21 - C30 *)

\* no row
NoRow == [value |-> "", exp |-> -1, refreshAt |-> -1]

\* the row of k once the ops of seq, oldest first, are all committed on top
\* of rows: what the newest op on k says, or the row as it is
Outcome(k, rows, seq) ==
    LET on == { i \in 1..Len(seq) : seq[i].Key = k }
    IN  IF on = {}
        THEN (IF k \in DOMAIN rows THEN rows[k] ELSE NoRow)
        ELSE LET op == seq[CHOOSE i \in on : \A j \in on : j <= i]
             IN  IF op.IsDelete THEN NoRow
                 ELSE [value |-> op.Value, exp |-> op.Exp, refreshAt |-> op.RefreshAt]

C22_Health ==
    [][/\ call'.op = "RecordFailure" => mon'.ConsecutiveErr = mon.ConsecutiveErr + 1
       /\ call'.op = "RecordSuccess" => mon'.ConsecutiveErr = 0
       /\ call'.op \notin {"RecordFailure", "RecordSuccess"} => mon' = mon
       /\ resp'.raw = "/status" =>
             IF mon.ConsecutiveErr < 3
             THEN resp'.code = 200 /\ resp'.body = "true"
             ELSE resp'.code = 500 /\ resp'.body = "false"]_vars

\* /status answers 500 at the third failure in a row that follows a success
C22_Witness ==
    /\ resp.raw = "/status" /\ resp.code = 500
    /\ mon.ConsecutiveErr = 3 /\ mon.SuccessCount = 1

\* the ISP codes that are keywords of their own rule
SelfNamedISPCodes ==
    { ispRules[r].Code : r \in { q \in 1..Len(ispRules) :
                                   ToUpper(ispRules[q].Code) \in ispRules[q].Keywords } }

\* C23 (idempotence) as stated: whenever (province, isp) normalizes to a tag
\* province_code_isp_code, normalizing (province_code, isp_code) gives the
\* same tag.
C23_Idempotent ==
    (norm.step = 2 /\ norm.tag # "fallback") => norm.again = norm.tag

\* C23 (idempotence) as the code has it: whenever (province, isp) normalizes
\* to a tag province_code_isp_code, normalizing (province_code, isp_code)
\* gives the same tag if isp_code is edu, gwbn or cbn, and "fallback" if it is
\* ct, cu or cmcc; the province code is always detected as itself.
C23_IdempotentWhereNamed ==
    (norm.step = 2 /\ norm.tag # "fallback") =>
        /\ SelfNamedISPCodes = {"edu", "gwbn", "cbn"}
        /\ matchPrefix(norm.info.ProvinceCode) = norm.info.ProvinceCode
        /\ norm.again = IF norm.info.ISPCode \in SelfNamedISPCodes
                        THEN norm.tag ELSE "fallback"

\* the Chinese name of Guangdong with the keyword CERNET gave guangdong_edu,
\* and so did (guangdong, edu)
C23_Witness ==
    /\ norm.step = 2
    /\ norm.in = [Province |-> "[24191][19996]", ISP |-> "CERNET"]
    /\ norm.tag = "guangdong_edu" /\ norm.again = "guangdong_edu"

\* the tag the spec gives for the codes detected in (province, isp)
TagAsSpecified(pi) ==
    LET pc == detectProvinceCode(NewIPInfo(pi))
        ic == detectISPCode(NewIPInfo(pi))
    IN  IF pc = "" \/ ic = "" THEN "fallback" ELSE pc \o "_" \o ic

\* the normalizer on its own gives every input the specified tag
TagIsAsSpecified == norm.step >= 1 => norm.tag = TagAsSpecified(norm.in)

Refused ==
    /\ resp'.code = 400
    /\ items' = items /\ count' = count
    /\ inflight' = inflight /\ queue' = queue
    /\ hpc' = hpc

\* C25 (only GET /<ipv4>): a request with a method other than GET, or with a
\* path that is not an IPv4 literal in dotted form, is answered 400 and
\* changes neither the cache, the inflight set nor the queue.
C25_OnlyGetIPv4 ==
    [][(call'.op \in Methods /\ (call'.op # "GET" \/ ~IsDottedQuad(call'.key))) => Refused]_vars

\* whatever the method, a path that is empty, favicon.ico, or not parsed as
\* an address with a 4-byte form is refused
BadPathRefused ==
    [][(call'.op \in Methods /\ ~ValidRaw(call'.key)) => Refused]_vars

\* the status codes HandleUpdate writes; 0 stands for a step that answers nothing
HandlerCodes == {200, 202, 400, 429}

\* C26 (fetch error contained): the step in which Fetch returns an error
\* leaves every cache binding, the inflight set and the queue as they were;
\* the worker then releases the inflight key without touching the cache and
\* is back at the head of its loop, the process alive; and every answer of
\* the request handler is 200, 202, 400 or 429.
C26_ErrorContained ==
    [][/\ \A w \in Workers :
             /\ (wpc[w] = "fetch" /\ wpc'[w] = "release") =>
                   /\ items' = items /\ count' = count
                   /\ inflight' = inflight /\ queue' = queue
                   /\ ~crashed'
             /\ (wpc[w] = "release" /\ wpc'[w] # "release") =>
                   /\ items' = items /\ count' = count
                   /\ KeyOf[wraw[w]] \notin inflight'
                   /\ wpc'[w] = "idle" /\ ~crashed'
       /\ resp'.code \in HandlerCodes \cup {0}]_vars

\* worker 1 is about to release its key after a failed Fetch: nothing was
\* ever bound, no time has passed, and the key is still inflight
C26_Witness ==
    /\ wpc[1] = "release" /\ ~crashed
    /\ items = EmptyItems /\ now = 0
    /\ KeyOf[wraw[1]] \in inflight

\* C27 (race guard): a worker starts a Fetch only from its re-check of the
\* cache, and only if that is a miss or a hit inside the refresh window; when
\* the re-check is a hit outside the window the worker goes straight to the
\* release of the inflight key, and neither that step nor the release writes
\* the cache.
C27_RaceGuard ==
    [][\A w \in Workers :
          /\ (wpc'[w] = "fetch" /\ wpc[w] # "fetch") =>
                (wpc[w] = "check" /\ ~FreshHit(KeyOf[wraw[w]]))
          /\ (wpc[w] = "check" /\ wpc'[w] # "check" /\ FreshHit(KeyOf[wraw[w]])) =>
                /\ wpc'[w] = "release"
                /\ items' = items /\ count' = count /\ inflight' = inflight
          /\ (wpc[w] = "release" /\ wpc'[w] # "release") =>
                /\ items' = items /\ count' = count
                /\ inflight' = inflight \ {KeyOf[wraw[w]]}]_vars

\* worker 1 has just found the key of its item freshly bound by someone else
\* and is about to release it
C27_Witness ==
    /\ wpc[1] = "release"
    /\ call.op = "Get" /\ call.key = KeyOf[wraw[1]]
    /\ call.result.found /\ ~call.result.needsRefresh
    /\ KeyOf[wraw[1]] \in inflight

\* m.cache.Close() is about to start
CacheCloseStarts == mpc = "close" /\ cpc[1] = "idle"

\* C28 (shutdown order): the cache is closed only after the queue was closed
\* and the workers have exited, and at the moment cache.Close() starts the
\* queue is empty, no worker is running and the inflight set is empty.
C28_StopOrder ==
    /\ closed = 1 => mpc = "close"
    /\ CacheCloseStarts =>
          /\ queue = <<>>
          /\ \A w \in Workers : wpc[w] = "exited"
          /\ inflight = {}

\* the same without the inflight set: the items queued when the queue was
\* closed were all taken and worked off, and every worker has returned
StopDrained ==
    /\ closed = 1 => mpc = "close"
    /\ mpc = "close" => (queue = <<>> /\ \A w \in Workers : wpc[w] = "exited")

\* a key still inflight when the workers are gone belongs to a handler that
\* is between its TryAdd and its send, or that panicked in the send
StopInflightOfHandlers ==
    mpc = "close" =>
        \A k \in inflight :
            \E h \in Handlers :
                /\ hpc[h] \in {"send_miss", "send_refresh", "undo_miss", "undo_refresh", "panicked"}
                /\ KeyOf[hraw[h]] = k

\* the workers inside a call of Provider.Fetch
Fetching == { w \in Workers : wpc[w] = "fetch" }

\* C29 (pool bound): the calls of Provider.Fetch in progress are never more
\* than the configured concurrency, and the items waiting in the queue never
\* more than its capacity.
C29_PoolBound ==
    /\ Cardinality(Fetching) <= NumWorkers
    /\ Len(queue) <= QueueSize

\* every worker is inside a Fetch and the queue is full
C29_Witness ==
    /\ Cardinality(Fetching) = NumWorkers
    /\ Len(queue) = QueueSize
    /\ \A w \in Workers : KeyOf[wraw[w]] \in inflight

\* a caller inside sendToPersist can take its next step whatever the writer
\* is doing, or not doing
NeverWaits ==
    ~crashed =>
        \A c \in Callers :
            /\ spc[c] = "check" => ENABLED SendCheck(c)
            /\ spc[c] = "send" => ENABLED SendTry(c)

\* C30 (backpressure): Set and Delete never wait for the writer; the channel
\* never holds more than its capacity; the write of a Set or Delete is in
\* memory before the op is offered, and when the channel is full, as it stays
\* when no writer takes from it, the offer leaves the channel and the memory
\* as they are and adds 1 to dropped_updates.
C30_Backpressure ==
    /\ [](NeverWaits /\ Len(persistCh) <= PersistChCap)
    /\ [][\A c \in Callers :
            /\ (spc[c] = "idle" /\ spc'[c] # "idle") =>
                  LET op == sop'[c]
                  IN  IF op.IsDelete
                      THEN op.Key \notin DOMAIN items'
                      ELSE /\ op.Key \in DOMAIN items'
                           /\ items'[op.Key] =
                                [value |-> op.Value, exp |-> op.Exp, refreshAt |-> op.RefreshAt]
            /\ (spc[c] = "send" /\ spc'[c] # "send" /\ Len(persistCh) >= PersistChCap) =>
                  /\ persistCh' = persistCh
                  /\ droppedUpdates' = droppedUpdates + 1
                  /\ items' = items /\ count' = count
                  /\ spc'[c] = "idle"]_vars

\* no writer was started, the channel is full of the op of a first Set, and
\* the op of a second Set was dropped while its binding is in memory
C30_Witness ==
    /\ writer = "none" /\ closed = 0
    /\ Len(persistCh) = PersistChCap /\ persistCh[1].Key = "1.2.3"
    /\ droppedUpdates = 1 /\ nops = 2
    /\ "3.2.1" \in DOMAIN items
    /\ \A c \in Callers : spc[c] = "idle"

-----------------------------------------------------------------------------
(* C31 - C40 *)

\* the ops a writer step flushes: the batch, with the op it has just received
FlushedOps == IF Len(persistCh') < Len(persistCh) THEN Append(batch, Head(persistCh)) ELSE batch

\* C31 (flush failure): a flush that fails leaves the store as it was, with
\* none of the batch's ops in it, empties the batch, changes nothing in
\* memory, and leaves the writer running unless the flush was the one of the
\* stop case; a later flush that succeeds commits its own batch, in which the
\* ops of the failed one are not tried again.
C31_FlushFailure ==
    [][/\ call'.op = "FlushFailed" =>
             /\ store' = store
             /\ batch' = <<>>
             /\ items' = items /\ count' = count
             /\ droppedUpdates' = droppedUpdates
             /\ writer' = IF call'.key = "stop" THEN "done" ELSE "run"
       /\ (call'.op # "FlushFailed" /\ writer = "run" /\ batch' = <<>> /\ FlushedOps # <<>>) =>
             \A k \in Keys :
                 Outcome(k, store', <<>>) = Outcome(k, store, FlushedOps)]_vars

\* a flush has just failed: the key is bound in memory, the store has no row,
\* the batch is empty, the writer runs and the next op waits in the channel
C31_Witness ==
    /\ call.op = "FlushFailed" /\ writer = "run"
    /\ "1.2.3" \in DOMAIN items /\ store = EmptyStore
    /\ batch = <<>> /\ Len(persistCh) = 1

\* the step is a sweep: bindings go, none comes, and no cache method was called
Swept == items' # items /\ DOMAIN items' \subseteq DOMAIN items /\ call'.op = "none"

QueuedOrProcessed(k) == QueuedFor(k) # {} \/ ProcessingFor(k) # {}

\* C33 (inflight is ownership) as stated: whenever no handler is between its
\* TryAdd and its attempt to enqueue, a key is in the inflight set exactly
\* when an item with that key is queued or being processed by a worker.
C33_InflightIsOwnership ==
    (\A h \in Handlers : hpc[h] \notin {"send_miss", "send_refresh"}) =>
        \A k \in Keys : k \in inflight <=> QueuedOrProcessed(k)

\* C33 (inflight is ownership) as the code has it: for every key that no
\* handler holds, either before its attempt to enqueue or between the
\* attempt that failed and the Delete that makes up for it, the key is in
\* the inflight set exactly when an item with that key is queued or being
\* processed by a worker.
C33_InflightIsOwnershipUnlessHeld ==
    \A k \in Keys : HoldingFor(k) = {} => (k \in inflight <=> QueuedOrProcessed(k))

\* one key is queued, another is with a worker, both are inflight, and no
\* handler holds anything
C33_Witness ==
    /\ \A k \in Keys : HoldingFor(k) = {}
    /\ \E k1, k2 \in inflight :
          /\ k1 # k2
          /\ QueuedFor(k1) # {} /\ ProcessingFor(k1) = {}
          /\ ProcessingFor(k2) # {} /\ QueuedFor(k2) = {}

\* C34 (read-only handle): while the cache is open, however many goroutines
\* call GetAllItems and whatever StartPersistence did, at most one read-only
\* connection has been opened, c.roDB holds it from then on, and every caller
\* that has taken a handle has taken that one.
C34_OpenedOnce ==
    closed = 0 =>
        /\ roOpens <= 1
        /\ roDB <=> roOpens = 1
        /\ \A r \in Readers : rpc[r] = "query" => rdb[r] = 1

\* one caller has the handle in hand while the other, which found c.roDB
\* nil on the fast path, waits for the write lock: it will not open again
C34_Witness ==
    /\ closed = 0 /\ roDB /\ roOpens = 1
    /\ rpc[1] = "slow" /\ rpc[2] = "query" /\ rdb[2] = 1

\* C38 (no handle after Close): once a call of Close has returned, c.roDB is
\* nil, and no caller of GetAllItems holds a handle it will be given rows from.
C38_NoHandleAfterClose ==
    (\E c \in Closers : cpc[c] = "returned") =>
        /\ ~roDB
        /\ \A r \in Readers : rpc[r] = "query" => rdb[r] # roHandle

\* the step writes key k as Set and SetWithTime both do under the shard
\* lock: an existing binding is overwritten in place; a new key goes into its
\* shard after one binding of the shard was removed if the shard was full;
\* no other binding changes and Count follows
WrittenInMemory(k) ==
    /\ k \in DOMAIN items'
    /\ \A j \in (DOMAIN items') \ {k} : j \in DOMAIN items /\ items'[j] = items[j]
    /\ IF k \in DOMAIN items
       THEN DOMAIN items' = DOMAIN items /\ count' = count
       ELSE IF Cardinality(BoundInShardOf(items, k)) >= shardCap
            THEN /\ \E v \in BoundInShardOf(items, k) :
                       DOMAIN items' = ((DOMAIN items) \ {v}) \cup {k}
                 /\ count' = count
            ELSE /\ DOMAIN items' = (DOMAIN items) \cup {k}
                 /\ count' = count + 1

\* the step offers the persistence channel a write op for what k is now
\* bound to: the op is appended, or it is counted as dropped
OffersOp(k) ==
    \/ /\ persistCh' = Append(persistCh,
                             [IsDelete |-> FALSE, Key |-> k, Value |-> items'[k].value,
                              Exp |-> items'[k].exp, RefreshAt |-> items'[k].refreshAt])
       /\ droppedUpdates' = droppedUpdates
    \/ /\ persistCh' = persistCh
       /\ droppedUpdates' = droppedUpdates + 1

\* C35 (SetWithTime is Set but for the times) as stated: a call of
\* SetWithTime has every effect of Set, in memory and on the persistence
\* channel, and only the times stored are the caller's.
C35_SameAsSet ==
    [][\A k \in Keys :
          (call'.op \in {"Set", "SetWithTime"} /\ call'.key = k) =>
              /\ WrittenInMemory(k)
              /\ OffersOp(k)
              /\ call'.op = "Set" =>
                    /\ items'[k].exp = now + ttl
                    /\ items'[k].refreshAt = now + ttl - refreshWindow
              /\ call'.op = "SetWithTime" =>
                    <<items'[k].exp, items'[k].refreshAt>> \in TimeChoices]_vars

\* C35 (SetWithTime is Set but for the times) as the code has it: a call of
\* SetWithTime has the effects of Set in memory (overwrite in place, or one
\* eviction from a full shard and the insertion, Count following), the times
\* stored are the caller's instead of cached_now + ttl and exp -
\* refresh_window, and, unlike Set, it offers no op to the persistence
\* channel and never counts a drop.
C35_SameAsSetInMemory ==
    [][\A k \in Keys :
          (call'.op \in {"Set", "SetWithTime"} /\ call'.key = k) =>
              /\ WrittenInMemory(k)
              /\ call'.op = "Set" =>
                    /\ OffersOp(k)
                    /\ items'[k].exp = now + ttl
                    /\ items'[k].refreshAt = now + ttl - refreshWindow
              /\ call'.op = "SetWithTime" =>
                    /\ persistCh' = persistCh /\ droppedUpdates' = droppedUpdates
                    /\ <<items'[k].exp, items'[k].refreshAt>> \in TimeChoices]_vars

\* a Set of one key, then a SetWithTime of another key of the same shard,
\* which evicted the first; the channel holds the op of the Set only
C35_Witness ==
    /\ call.op = "SetWithTime" /\ nops = 2 /\ now = 0 /\ ttl > 0
    /\ DOMAIN items = {call.key} /\ count = 1
    /\ items[call.key].exp # now + ttl
    /\ Len(persistCh) = 1 /\ persistCh[1].Key # call.key
    /\ ShardOf[persistCh[1].Key] = ShardOf[call.key]
    /\ droppedUpdates = 0

\* C36 (shard capacity): every shard holds at most shardCap bindings, after
\* any sequence of Set, SetWithTime, Delete, clock ticks and sweeps.
C36_ShardBound ==
    \A s \in UsedShards :
        Cardinality({ k \in DOMAIN items : ShardOf[k] = s }) <= shardCap

\* three calls of Set, the last for a key other than the first, whose op is
\* the one in the channel: the shard of the last key is full, and that key is
\* in it
C36_Witness ==
    /\ call.op = "Set" /\ nops = MaxRequests /\ droppedUpdates = 2
    /\ Len(persistCh) = 1 /\ persistCh[1].Key # call.key
    /\ ShardOf[persistCh[1].Key] = ShardOf[call.key]
    /\ call.key \in DOMAIN items
    /\ Cardinality({ k \in DOMAIN items : ShardOf[k] = ShardOf[call.key] }) = shardCap

\* C37 (no send after Stop): no handler executes the send on the work queue
\* once Manager.Stop has closed the queue, whether or not the HTTP shutdown
\* ended before its timeout.
C37_NoSendOnClosedQueue ==
    [][\A h \in Handlers :
          (queueClosed(mpc) /\ hpc[h] \in {"send_miss", "send_refresh"}) => hpc'[h] = hpc[h]]_vars

\* the positions of the persistence channel that hold an op for key k
ChannelOpsFor(k) == { i \in 1..Len(persistCh) : persistCh[i].Key = k }

\* op describes what k is bound to in memory, or is a delete and k is unbound
Describes(op, k) ==
    IF op.IsDelete
    THEN k \notin DOMAIN items
    ELSE /\ k \in DOMAIN items
         /\ items[k].value = op.Value
         /\ items[k].exp = op.Exp

\* C39 (last write agrees): when every call of Set and Delete has returned
\* and no op was dropped, the last op for a key in the persistence channel
\* describes the state of the key in memory.
C39_LastWriteAgrees ==
    ((\A c \in Callers : spc[c] = "idle") /\ droppedUpdates = 0) =>
        \A k \in Keys :
            ChannelOpsFor(k) # {} =>
                Describes(persistCh[CHOOSE i \in ChannelOpsFor(k) :
                                        \A j \in ChannelOpsFor(k) : j <= i], k)

\* C40 (the sweep spares what Get serves): every binding a sweep removes has
\* exp <= cached_now at that moment, so Get would have reported a miss for
\* it; whatever Set, SetWithTime, Delete and clock ticks came before.
C40_SweepSparesHits ==
    [][Swept =>
          \A k \in (DOMAIN items) \ (DOMAIN items') :
              /\ items[k].exp <= now
              /\ ~Get(k).found]_vars

\* two calls, one of them a Set whose op is in the channel, nothing dropped,
\* and no binding left: the binding made by the Set, or the one that evicted
\* it, was swept, and the clock is at the exp the Set gave
C40_Witness ==
    /\ nops = 2 /\ items = EmptyItems /\ count = 0
    /\ Len(persistCh) = 1 /\ ~persistCh[1].IsDelete /\ droppedUpdates = 0
    /\ ttl > 0 /\ persistCh[1].Exp = now

====
